---------------------------- MODULE Spec2Model ----------------------------
(***************************************************************************)
(* State-machine model of the two Lightning web components of the order    *)
(* assignment page:                                                        *)
(*   - orderProducts     (the Order Line View),   variables op_* and the   *)
(*                        fields orderItems, isActivating, subscription    *)
(*   - availableProducts (the Product List View), variables ap_* and the   *)
(*                        fields products, filteredProducts, ...           *)
(* together with the Apex endpoints they call, seen as opaque remote       *)
(* procedures.  Every handler is cut at its awaits: the part that runs up  *)
(* to the remote call is one action, the continuation that runs when the   *)
(* promise settles is another (suffix _resume).                            *)
(***************************************************************************)
EXTENDS Bags, FiniteSets, Integers, Sequences, TLC

VARIABLES
    srvActivated,           \* the order's activation status on the server
    op_recordId,            \* orderProducts: @api recordId
    op_mounted,             \* orderProducts: inserted in the DOM
    subscription,           \* orderProducts: subscription
    orderItems,             \* orderProducts: @track orderItems
    op_isLoading,           \* orderProducts: @track isLoading
    isActivating,           \* orderProducts: @track isActivating
    op_isActivated,         \* orderProducts: @track isActivated
    op_error,               \* orderProducts: @track error
    wiredOrderItemsResult,  \* orderProducts: wiredOrderItemsResult
    op_calls,               \* orderProducts: remote calls awaiting settlement
    ap_recordId,            \* availableProducts: @api recordId
    ap_mounted,             \* availableProducts: inserted in the DOM
    products,               \* availableProducts: @track products
    filteredProducts,       \* availableProducts: @track filteredProducts
    searchTerm,             \* availableProducts: searchTerm
    ap_isLoading,           \* availableProducts: isLoading
    ap_error,               \* availableProducts: @track error
    includeExternal,        \* availableProducts: includeExternal
    sfCount,                \* availableProducts: sfCount
    apiCount,               \* availableProducts: apiCount
    totalCount,             \* availableProducts: totalCount
    showStats,              \* availableProducts: showStats
    pageSize,               \* availableProducts: @track pageSize
    currentPage,            \* availableProducts: @track currentPage
    ap_isActivated,         \* availableProducts: isActivated
    ap_calls,               \* availableProducts: remote calls awaiting settlement
    microtasks,             \* availableProducts: promise reactions queued, in order
    ap_timers,              \* availableProducts: setTimeout(.., 500) callbacks pending
    op_timers,              \* orderProducts: setTimeout callbacks pending, as scheduled
    lmsListeners,           \* message channel: listeners it holds for orderProducts
    lmsQueue,               \* message channel: messages on their way to a listener
    last                    \* the handler that ran last and what it emitted

op_vars == <<op_recordId, op_mounted, subscription, orderItems, op_isLoading,
             isActivating, op_isActivated, op_error, wiredOrderItemsResult,
             op_calls, op_timers>>

ap_vars == <<ap_recordId, ap_mounted, products, filteredProducts, searchTerm,
             ap_isLoading, ap_error, includeExternal, sfCount, apiCount,
             totalCount, showStats, pageSize, currentPage, ap_isActivated,
             ap_calls, microtasks, ap_timers>>

lms_vars == <<lmsListeners, lmsQueue>>

vars == <<srvActivated, op_vars, ap_vars, lms_vars, last>>

----------------------------------------------------------------------------
(* Bounds of the model *)

\* remote calls orderProducts may have awaiting settlement at the same time
MaxInFlight == 2
\* operations started by user events (source toggles, adds up to their
\* setTimeout callback) availableProducts may have under way at the same time
MaxPending == 1
\* rows the live query of order items delivers at most
MaxItems == 2
\* rows of the combined catalog on the server
MaxCatalog == 2
\* rows of the catalogs browsed by search and pages
MaxRows == 25
\* page sizes browsed
MaxPageSize == 10
\* ProductAddedEvents the Order Line View has under way
MaxMessages == 2

----------------------------------------------------------------------------
(* Values *)

\* @track pageSize = 10
DefaultPageSize == 10

NoId == "undefined"
OrderId == "order1"
RecordIds == {NoId, OrderId}
NoSubscription == "null"
Subscribed == "subscription"
NoError == "undefined"

\* The shapes of a rejected promise's reason that getErrorMessage tells apart.
ErrNull == "err:null"
ErrBody == "err:body.message"
ErrMessage == "err:message"
ErrString == "err:string"
ErrOther == "err:object"
ErrorShapes == {ErrNull, ErrBody, ErrMessage, ErrString, ErrOther}
\* The reasons remote calls are rejected with here: an Apex error carrying
\* body.message, and an object without any message.
Errors == {ErrBody, ErrOther}

getErrorMessage(error) ==
    IF error = ErrNull THEN "Unknown error occurred"
    ELSE IF error = ErrBody THEN "error.body.message"
    ELSE IF error = ErrMessage THEN "error.message"
    ELSE IF error = ErrString THEN "error"
    ELSE "An error occurred. Please contact your administrator."

\* The ShowToastEvent a call of showToast dispatches.
showToast(title, message, variant) ==
    [title |-> title, message |-> message, variant |-> variant,
     mode |-> IF variant = "error" THEN "sticky" ELSE "dismissable"]

\* What one handler run did besides changing the fields: the toasts it
\* dispatched, the page-level effects it started and the messages it
\* published on the ProductAdded channel, in order.
DidPublish(op, toasts, effects, published) ==
    [op |-> op, toasts |-> toasts, effects |-> effects, published |-> published]

Did(op, toasts, effects) == DidPublish(op, toasts, effects, <<>>)

ServerMessage == "result.message"

----------------------------------------------------------------------------
(* Remote calls awaiting settlement *)

CheckCall(st, res) == [api |-> "isOrderActivated", st |-> st, res |-> res]
ActivateCall(st, success) == [api |-> "activateOrder", st |-> st, success |-> success]
RemoveCall(id) == [api |-> "removeOrderItem", orderItemId |-> id]
RefreshCall == [api |-> "refreshApex"]

Put(calls, c) == calls (+) SetToBag({c})
Take(calls, c) == calls (-) SetToBag({c})
InFlight(calls) == BagToSet(calls)
CanIssue(calls) == BagCardinality(calls) < MaxInFlight

----------------------------------------------------------------------------
(* orderProducts: rows *)

\* A totalPrice is <<>> when the row has none (undefined or null), else <<n>>.
NoPrice == <<>>

\* The row of order item k as getOrderProducts returns it.
OrderItemRow(k) == [orderItemId |-> k, totalPrice |-> <<(k - 1) * 5>>]

\* The prices a row of the live query can carry: none, zero, an amount.
Prices == {NoPrice, <<0>>, <<5>>}

\* The lists of up to MaxItems rows with every choice of prices.
PricedData ==
    UNION {{[k \in 1..n |-> [orderItemId |-> k, totalPrice |-> f[k]]] :
               f \in [1..n -> Prices]} : n \in 0..MaxItems}

\* The lists the live query can deliver.
WireData == {[k \in 1..n |-> OrderItemRow(k)] : n \in 0..MaxItems}

WireResults ==
    {[kind |-> "data", data |-> d, error |-> NoError] : d \in WireData}
    \cup {[kind |-> "error", data |-> <<>>, error |-> e] : e \in Errors}
    \cup {[kind |-> "empty", data |-> <<>>, error |-> NoError]}

decorateRows(data, activated) ==
    [i \in DOMAIN data |->
        [orderItemId |-> data[i].orderItemId,
         totalPrice |-> data[i].totalPrice,
         removeDisabled |-> activated]]

hasOrderItems == Len(orderItems) > 0

isActivateButtonDisabled == isActivating \/ op_isActivated \/ ~hasOrderItems

activateButtonLabel ==
    IF op_isActivated THEN "Order Activated"
    ELSE IF isActivating THEN "Activating..."
    ELSE "Activate Order"

\* item.totalPrice || 0
PriceOrZero(item) ==
    IF item.totalPrice = NoPrice \/ item.totalPrice[1] = 0
      THEN 0
      ELSE item.totalPrice[1]

\* items.reduce((sum, item) => .., sum) from row i on, keeping only the price
\* of the row it is at.
RECURSIVE reduce_lastRow(_, _, _)
reduce_lastRow(items, i, sum) ==
    IF i > Len(items) THEN sum
    ELSE reduce_lastRow(items, i + 1, PriceOrZero(items[i]))

\* items.reduce((sum, item) => sum + (item.totalPrice || 0), sum) from row i on
RECURSIVE reduce(_, _, _)
reduce(items, i, sum) ==
    IF i > Len(items) THEN sum
    ELSE reduce(items, i + 1, sum + PriceOrZero(items[i]))

totalOrderAmount == IF ~hasOrderItems THEN 0 ELSE reduce(orderItems, 1, 0)

orderItemsCount == Len(orderItems)

----------------------------------------------------------------------------
(* The server *)

\* The order is activated by another session (authoritative state is external).
OrderActivatedElsewhere ==
    /\ ~srvActivated
    /\ srvActivated' = TRUE
    /\ last' = Did("server", <<>>, <<>>)
    /\ UNCHANGED <<op_vars, ap_vars, lms_vars>>

\* The server answers an isOrderActivated call of the Order Line View with
\* the status it has now.
op_isOrderActivated_serve ==
    \E c \in InFlight(op_calls) :
        /\ c.api = "isOrderActivated" /\ c.st = "sent"
        /\ op_calls' = Put(Take(op_calls, c), CheckCall("done", srvActivated))
        /\ last' = Did("server", <<>>, <<>>)
        /\ UNCHANGED <<srvActivated, op_recordId, op_mounted, subscription,
                       orderItems, op_isLoading, isActivating, op_isActivated,
                       op_error, wiredOrderItemsResult>>
        /\ UNCHANGED <<ap_vars, lms_vars, op_timers>>

\* The server answers an isOrderActivated call of the Product List View.
ap_isOrderActivated_serve ==
    \E c \in InFlight(ap_calls) :
        /\ c.api = "isOrderActivated" /\ c.st = "sent"
        /\ ap_calls' = Put(Take(ap_calls, c), CheckCall("done", srvActivated))
        /\ last' = Did("server", <<>>, <<>>)
        /\ UNCHANGED <<ap_recordId, ap_mounted, products, filteredProducts,
                       searchTerm, ap_isLoading, ap_error, includeExternal, sfCount,
                       apiCount, totalCount, showStats, pageSize, currentPage,
                       ap_isActivated, microtasks, ap_timers>>
        /\ UNCHANGED <<srvActivated, op_vars, lms_vars>>

\* The server runs an activateOrder call: it activates the order and reports
\* success, or refuses and reports failure.
activateOrder_serve ==
    \E c \in InFlight(op_calls), success \in BOOLEAN :
        /\ c.api = "activateOrder" /\ c.st = "sent"
        /\ op_calls' = Put(Take(op_calls, c), ActivateCall("done", success))
        /\ srvActivated' = (srvActivated \/ success)
        /\ last' = Did("server", <<>>, <<>>)
        /\ UNCHANGED <<op_recordId, op_mounted, subscription, orderItems,
                       op_isLoading, isActivating, op_isActivated, op_error,
                       wiredOrderItemsResult>>
        /\ UNCHANGED <<ap_vars, lms_vars, op_timers>>

----------------------------------------------------------------------------
(* orderProducts: lifecycle *)

\* subscribeToMessageChannel without its check for a subscription it holds.
subscribeToMessageChannel_unguarded ==
    /\ subscription' = Subscribed
    /\ lmsListeners' = lmsListeners + 1

\* subscribeToMessageChannel(): nothing when the view holds a subscription,
\* else subscribe() registers a listener and the view keeps its handle.
subscribeToMessageChannel ==
    IF subscription # NoSubscription
      THEN UNCHANGED <<subscription, lmsListeners>>
      ELSE /\ subscription' = Subscribed
           /\ lmsListeners' = lmsListeners + 1

\* The body of connectedCallback: checkOrderActivationStatus() up to its
\* await, then subscribeToMessageChannel().
connectedCallback_body ==
    /\ IF op_recordId = NoId
         THEN op_calls' = op_calls
         ELSE /\ CanIssue(op_calls)
              /\ op_calls' = Put(op_calls, CheckCall("sent", FALSE))
    /\ subscribeToMessageChannel
    /\ last' = Did("connectedCallback", <<>>, <<>>)
    /\ UNCHANGED <<srvActivated, op_recordId, orderItems, op_isLoading,
                   isActivating, op_isActivated, op_error, wiredOrderItemsResult>>
    /\ UNCHANGED <<ap_vars, lmsQueue, op_timers>>

\* The view is inserted in the DOM: connectedCallback runs.
op_connectedCallback ==
    /\ ~op_mounted
    /\ op_mounted' = TRUE
    /\ connectedCallback_body

\* connectedCallback called on a view that is in the DOM already.
op_connectedCallback_direct ==
    /\ op_mounted
    /\ op_mounted' = op_mounted
    /\ connectedCallback_body

\* The body of disconnectedCallback: with a subscription, unsubscribe() takes
\* the listener off the channel (the channel calls it no more) and the handle
\* is cleared; without one, nothing.
disconnectedCallback_body ==
    /\ IF subscription # NoSubscription
         THEN /\ subscription' = NoSubscription
              /\ lmsListeners' = lmsListeners - 1
              /\ lmsQueue' = IF lmsListeners' = 0 THEN EmptyBag ELSE lmsQueue
         ELSE UNCHANGED <<subscription, lmsListeners, lmsQueue>>
    /\ last' = Did("disconnectedCallback", <<>>, <<>>)
    /\ UNCHANGED <<srvActivated, op_recordId, orderItems, op_isLoading,
                   isActivating, op_isActivated, op_error, wiredOrderItemsResult,
                   op_calls>>
    /\ UNCHANGED <<ap_vars, op_timers>>

\* The view is removed from the DOM: disconnectedCallback runs.
op_disconnectedCallback ==
    /\ op_mounted
    /\ op_mounted' = FALSE
    /\ disconnectedCallback_body

\* disconnectedCallback called on a view that is not in the DOM.
op_disconnectedCallback_direct ==
    /\ ~op_mounted
    /\ op_mounted' = op_mounted
    /\ disconnectedCallback_body

----------------------------------------------------------------------------
(* The message channel, and orderProducts: the ProductAddedEvent *)

OtherOrderId == "order2"

\* A message on its way: <<>> for a null message, else <<detail>>.
NullMessage == <<>>

\* The messages another publisher of the channel sends.
ForeignMessages ==
    {NullMessage}
    \cup {<<[productId |-> <<"i", "0", "1">>, orderItemId |-> "orderItem1",
             orderId |-> id]>> : id \in {OrderId, OtherOrderId}}

\* The events the Order Line View has under way: messages on their way to
\* it, record-view refreshes it has scheduled, reloads it has started.
EventsUnderWay ==
    BagCardinality(lmsQueue)
    + Cardinality({i \in DOMAIN op_timers :
                      op_timers[i].callback = "refreshCurrentRecordView"})
    + (IF RefreshCall \in InFlight(op_calls) THEN op_calls[RefreshCall] ELSE 0)

\* publish(messageContext, channel, message): the channel queues the message
\* once for every listener it holds.
publish(message) ==
    /\ lmsListeners > 0 => EventsUnderWay < MaxMessages
    /\ lmsQueue' = IF lmsListeners > 0
                     THEN lmsQueue (+) [m \in {message} |-> lmsListeners]
                     ELSE lmsQueue

\* Another publisher sends a message on the channel.
lms_publish ==
    \E message \in ForeignMessages :
        /\ publish(message)
        /\ last' = DidPublish("publish", <<>>, <<>>, message)
        /\ UNCHANGED <<srvActivated, op_vars, ap_vars, lmsListeners>>

\* delay of the reload handleProductAddedMessage schedules
ReloadDelay == 0
\* delay of the record-view refresh handleProductAddedMessage schedules
RefreshDelay == 400

Timer(callback, delay) == [callback |-> callback, delay |-> delay]

\* The timers of handleProductAddedMessage with the two delays exchanged.
ScheduledTimers_refreshFirst ==
    <<Timer("refreshOrderProducts", RefreshDelay),
      Timer("refreshCurrentRecordView", ReloadDelay)>>

\* The timers handleProductAddedMessage schedules, in its order.
ScheduledTimers ==
    <<Timer("refreshOrderProducts", ReloadDelay),
      Timer("refreshCurrentRecordView", RefreshDelay)>>

\* message && message.orderId === this.recordId
ForThisOrder(message) ==
    message # NullMessage /\ message[1].orderId = op_recordId

\* The channel calls the view's listener: handleProductAddedMessage(message).
handleProductAddedMessage ==
    \E message \in InFlight(lmsQueue) :
        /\ lmsQueue' = Take(lmsQueue, message)
        /\ op_timers' = IF ForThisOrder(message) THEN op_timers \o ScheduledTimers
                        ELSE op_timers
        /\ last' = Did("handleProductAddedMessage", <<>>, <<>>)
        /\ UNCHANGED <<srvActivated, op_recordId, op_mounted, subscription,
                       orderItems, op_isLoading, isActivating, op_isActivated,
                       op_error, wiredOrderItemsResult, op_calls>>
        /\ UNCHANGED <<ap_vars, lmsListeners>>

\* A pending timer is due before every timer scheduled after it with the same
\* or a longer delay: timer i can run when no timer scheduled before it has a
\* delay as short as its own.
CanRun(i) == \A j \in 1..(i - 1) : op_timers[j].delay > op_timers[i].delay

WithoutTimer(i) == SubSeq(op_timers, 1, i - 1) \o SubSeq(op_timers, i + 1, Len(op_timers))

\* The fields wiredOrderItems(result) leaves, as <<orderItems, error, toasts>>.
wiredOrderItemsEffect(result, items, error, activated) ==
    IF result.kind = "data"
      THEN <<decorateRows(result.data, activated), NoError, <<>> >>
    ELSE IF result.kind = "error"
      THEN << <<>>, getErrorMessage(result.error),
              <<showToast("Error loading order products",
                          getErrorMessage(result.error), "error")>> >>
    ELSE <<items, error, <<>> >>

\* The live query delivers one of `results` to the mounted component.
wiredOrderItemsOf(results) ==
    \E result \in results :
        LET eff == wiredOrderItemsEffect(result, orderItems, op_error, op_isActivated) IN
        /\ op_mounted /\ op_recordId # NoId
        /\ wiredOrderItemsResult' = TRUE
        /\ orderItems' = eff[1]
        /\ op_error' = eff[2]
        /\ last' = Did("wiredOrderItems", eff[3], <<>>)
        /\ UNCHANGED <<srvActivated, op_recordId, op_mounted, subscription,
                       op_isLoading, isActivating, op_isActivated, op_calls>>
        /\ UNCHANGED <<ap_vars, lms_vars, op_timers>>

\* The live query delivers a result.
wiredOrderItems == wiredOrderItemsOf(WireResults)

\* The live query delivers rows with every choice of prices.
wiredOrderItems_priced ==
    wiredOrderItemsOf({[kind |-> "data", data |-> d, error |-> NoError] : d \in PricedData})

\* checkOrderActivationStatus after its await, taking the order for not
\* activated when the promise rejected.
checkOrderActivationStatus_resume_resets ==
    \E c \in InFlight(op_calls) :
        /\ c.api = "isOrderActivated"
        /\ op_calls' = Take(op_calls, c)
        /\ \/ /\ c.st = "done"
              /\ op_isActivated' = c.res
              /\ orderItems' = IF Len(orderItems) > 0
                                 THEN decorateRows(orderItems, c.res)
                                 ELSE orderItems
              /\ last' = Did("checkOrderActivationStatus", <<>>, <<>>)
           \/ /\ op_isActivated' = FALSE
              /\ orderItems' = decorateRows(orderItems, FALSE)
              /\ last' = Did("checkOrderActivationStatus", <<>>, <<"console.error">>)
        /\ UNCHANGED <<srvActivated, op_recordId, op_mounted, subscription,
                       op_isLoading, isActivating, op_error, wiredOrderItemsResult>>
        /\ UNCHANGED <<ap_vars, lms_vars, op_timers>>

\* checkOrderActivationStatus after its await: the promise resolved with the
\* server's answer, or rejected (the catch block logs the error).
checkOrderActivationStatus_resume ==
    \E c \in InFlight(op_calls) :
        /\ c.api = "isOrderActivated"
        /\ op_calls' = Take(op_calls, c)
        /\ \/ /\ c.st = "done"
              /\ op_isActivated' = c.res
              /\ orderItems' = IF Len(orderItems) > 0
                                 THEN decorateRows(orderItems, c.res)
                                 ELSE orderItems
              /\ last' = Did("checkOrderActivationStatus", <<>>, <<>>)
           \/ /\ UNCHANGED <<op_isActivated, orderItems>>
              /\ last' = Did("checkOrderActivationStatus", <<>>, <<"console.error">>)
        /\ UNCHANGED <<srvActivated, op_recordId, op_mounted, subscription,
                       op_isLoading, isActivating, op_error, wiredOrderItemsResult>>
        /\ UNCHANGED <<ap_vars, lms_vars, op_timers>>


----------------------------------------------------------------------------
(* orderProducts: reload of the live query *)

\* refreshOrderProducts(): the fields it leaves, as <<isLoading, calls>>.
refreshOrderProducts(loading, calls) ==
    IF wiredOrderItemsResult
      THEN <<TRUE, Put(calls, RefreshCall)>>
      ELSE <<loading, calls>>

\* The promise of refreshApex settles.  Before it resolves the live query may
\* have delivered a fresh result; then() decorates the rows again and
\* finally() clears isLoading.  When it rejects only finally() runs.
refreshApex_settle ==
    \E c \in InFlight(op_calls) :
        /\ c.api = "refreshApex"
        /\ op_calls' = Take(op_calls, c)
        /\ \/ \E result \in WireResults :
                LET eff == wiredOrderItemsEffect(result, orderItems, op_error,
                                                 op_isActivated) IN
                /\ op_mounted
                /\ orderItems' = IF Len(eff[1]) > 0
                                   THEN decorateRows(eff[1], op_isActivated)
                                   ELSE eff[1]
                /\ op_error' = eff[2]
                /\ last' = Did("refreshApex", eff[3], <<>>)
           \/ /\ orderItems' = IF Len(orderItems) > 0
                                 THEN decorateRows(orderItems, op_isActivated)
                                 ELSE orderItems
              /\ last' = Did("refreshApex", <<>>, <<>>)
              /\ UNCHANGED op_error
           \/ /\ last' = Did("refreshApex", <<>>, <<>>)
              /\ UNCHANGED <<orderItems, op_error>>
        /\ op_isLoading' = FALSE
        /\ UNCHANGED <<srvActivated, op_recordId, op_mounted, subscription,
                       isActivating, op_isActivated, wiredOrderItemsResult>>
        /\ UNCHANGED <<ap_vars, lms_vars, op_timers>>

\* The setTimeout(.., 0) callback of handleProductAddedMessage:
\* refreshOrderProducts().
op_reloadTimer ==
    \E i \in DOMAIN op_timers :
        /\ op_timers[i].callback = "refreshOrderProducts"
        /\ CanRun(i)
        /\ op_timers' = WithoutTimer(i)
        /\ op_isLoading' = refreshOrderProducts(op_isLoading, op_calls)[1]
        /\ op_calls' = refreshOrderProducts(op_isLoading, op_calls)[2]
        /\ last' = Did("setTimeout:refreshOrderProducts", <<>>, <<>>)
        /\ UNCHANGED <<srvActivated, op_recordId, op_mounted, subscription,
                       orderItems, isActivating, op_isActivated, op_error,
                       wiredOrderItemsResult>>
        /\ UNCHANGED <<ap_vars, lms_vars>>

\* The setTimeout(.., 400) callback of handleProductAddedMessage:
\* refreshCurrentRecordView().
op_refreshTimer ==
    \E i \in DOMAIN op_timers :
        /\ op_timers[i].callback = "refreshCurrentRecordView"
        /\ CanRun(i)
        /\ op_timers' = WithoutTimer(i)
        /\ last' = Did("setTimeout:refreshCurrentRecordView", <<>>, <<"navigate">>)
        /\ UNCHANGED <<srvActivated, op_recordId, op_mounted, subscription,
                       orderItems, op_isLoading, isActivating, op_isActivated,
                       op_error, wiredOrderItemsResult, op_calls>>
        /\ UNCHANGED <<ap_vars, lms_vars>>

----------------------------------------------------------------------------
(* orderProducts: activation *)

\* handleActivateOrder without its check for rows.
handleActivateOrder_noRowsGuard ==
    /\ op_mounted
    /\ IF op_recordId = NoId
         THEN /\ last' = Did("handleActivateOrder",
                             <<showToast("Error", "Order ID is missing", "error")>>, <<>>)
              /\ UNCHANGED <<isActivating, op_calls>>
       ELSE IF op_isActivated
         THEN /\ last' = Did("handleActivateOrder",
                             <<showToast("Warning", "Order is already activated",
                                         "warning")>>, <<>>)
              /\ UNCHANGED <<isActivating, op_calls>>
       ELSE /\ CanIssue(op_calls)
            /\ isActivating' = TRUE
            /\ op_calls' = Put(op_calls, ActivateCall("sent", FALSE))
            /\ last' = Did("handleActivateOrder", <<>>, <<>>)
    /\ UNCHANGED <<srvActivated, op_recordId, op_mounted, subscription, orderItems,
                   op_isLoading, op_isActivated, op_error, wiredOrderItemsResult>>
    /\ UNCHANGED <<ap_vars, lms_vars, op_timers>>

\* handleActivateOrder up to its await: the three guards, then the call.
handleActivateOrder ==
    /\ op_mounted
    /\ IF op_recordId = NoId
         THEN /\ last' = Did("handleActivateOrder",
                             <<showToast("Error", "Order ID is missing", "error")>>, <<>>)
              /\ UNCHANGED <<isActivating, op_calls>>
       ELSE IF op_isActivated
         THEN /\ last' = Did("handleActivateOrder",
                             <<showToast("Warning", "Order is already activated",
                                         "warning")>>, <<>>)
              /\ UNCHANGED <<isActivating, op_calls>>
       ELSE IF ~hasOrderItems
         THEN /\ last' = Did("handleActivateOrder",
                             <<showToast("Error",
                                         "Cannot activate order without products",
                                         "error")>>, <<>>)
              /\ UNCHANGED <<isActivating, op_calls>>
       ELSE /\ CanIssue(op_calls)
            /\ isActivating' = TRUE
            /\ op_calls' = Put(op_calls, ActivateCall("sent", FALSE))
            /\ last' = Did("handleActivateOrder", <<>>, <<>>)
    /\ UNCHANGED <<srvActivated, op_recordId, op_mounted, subscription, orderItems,
                   op_isLoading, op_isActivated, op_error, wiredOrderItemsResult>>
    /\ UNCHANGED <<ap_vars, lms_vars, op_timers>>

\* handleActivateOrder after its await: result.success, result.success false,
\* or a rejected promise; finally isActivating is cleared.
handleActivateOrder_resume ==
    \E c \in InFlight(op_calls) :
        /\ c.api = "activateOrder"
        /\ op_calls' = Take(op_calls, c)
        /\ \/ /\ c.st = "done" /\ c.success
              /\ op_isActivated' = TRUE
              /\ last' = Did("handleActivateOrder_resume",
                             <<showToast("Success", ServerMessage, "success")>>,
                             <<"location.reload">>)
           \/ /\ c.st = "done" /\ ~c.success
              /\ last' = Did("handleActivateOrder_resume",
                             <<showToast("Activation Failed", ServerMessage, "error")>>,
                             <<>>)
              /\ UNCHANGED op_isActivated
           \/ \E e \in Errors :
                /\ last' = Did("handleActivateOrder_resume",
                               <<showToast("Error activating order",
                                           getErrorMessage(e), "error")>>, <<>>)
                /\ UNCHANGED op_isActivated
        /\ isActivating' = FALSE
        /\ UNCHANGED <<srvActivated, op_recordId, op_mounted, subscription, orderItems,
                       op_isLoading, op_error, wiredOrderItemsResult>>
        /\ UNCHANGED <<ap_vars, lms_vars, op_timers>>

----------------------------------------------------------------------------
(* orderProducts: row actions *)

RowActions == {"remove"}

\* handleRowAction without its check of isActivated.
op_handleRowAction_unguarded ==
    \E actionName \in RowActions, i \in DOMAIN orderItems :
        /\ op_mounted
        /\ actionName = "remove"
        /\ CanIssue(op_calls)
        /\ op_isLoading' = TRUE
        /\ op_calls' = Put(op_calls, RemoveCall(orderItems[i].orderItemId))
        /\ last' = Did("handleRowAction", <<>>, <<>>)
        /\ UNCHANGED <<srvActivated, op_recordId, op_mounted, subscription,
                       orderItems, isActivating, op_isActivated, op_error,
                       wiredOrderItemsResult>>
        /\ UNCHANGED <<ap_vars, lms_vars, op_timers>>

\* handleRowAction up to its await, for a row the table shows.
op_handleRowAction ==
    \E actionName \in RowActions, i \in DOMAIN orderItems :
        /\ op_mounted
        /\ actionName = "remove"
        /\ IF op_isActivated
             THEN /\ last' = Did("handleRowAction",
                                 <<showToast("Warning",
                                     "Cannot remove products from an activated order",
                                     "warning")>>, <<>>)
                  /\ UNCHANGED <<op_isLoading, op_calls>>
             ELSE /\ CanIssue(op_calls)
                  /\ op_isLoading' = TRUE
                  /\ op_calls' = Put(op_calls, RemoveCall(orderItems[i].orderItemId))
                  /\ last' = Did("handleRowAction", <<>>, <<>>)
        /\ UNCHANGED <<srvActivated, op_recordId, op_mounted, subscription,
                       orderItems, isActivating, op_isActivated, op_error,
                       wiredOrderItemsResult>>
        /\ UNCHANGED <<ap_vars, lms_vars, op_timers>>

\* handleRowAction after its await: res.success, res.success false, no res, or
\* a rejected promise; finally isLoading is cleared.
op_handleRowAction_resume ==
    \E c \in InFlight(op_calls) :
        /\ c.api = "removeOrderItem"
        /\ \/ /\ op_calls' = refreshOrderProducts(op_isLoading, Take(op_calls, c))[2]
              /\ last' = Did("handleRowAction_resume",
                             <<showToast("Success", ServerMessage, "success")>>,
                             <<"navigate">>)
           \/ /\ op_calls' = Take(op_calls, c)
              /\ last' = Did("handleRowAction_resume",
                             <<showToast("Error", ServerMessage, "error")>>, <<>>)
           \/ /\ op_calls' = Take(op_calls, c)
              /\ last' = Did("handleRowAction_resume",
                             <<showToast("Error", "Unable to remove product", "error")>>,
                             <<>>)
           \/ \E e \in Errors :
                /\ op_calls' = Take(op_calls, c)
                /\ last' = Did("handleRowAction_resume",
                               <<showToast("Error removing product",
                                           getErrorMessage(e), "error")>>, <<>>)
        /\ op_isLoading' = FALSE
        /\ UNCHANGED <<srvActivated, op_recordId, op_mounted, subscription,
                       orderItems, isActivating, op_isActivated, op_error,
                       wiredOrderItemsResult>>
        /\ UNCHANGED <<ap_vars, lms_vars, op_timers>>

----------------------------------------------------------------------------
(* availableProducts: strings *)

\* String.prototype.toLowerCase, letter by letter.
LowerChar(c) ==
    IF c = "A" THEN "a" ELSE IF c = "B" THEN "b" ELSE IF c = "C" THEN "c" ELSE c

toLowerCase(str) == [i \in DOMAIN str |-> LowerChar(str[i])]

\* String.prototype.includes.
includes(str, term) ==
    \E i \in 0..(Len(str) - Len(term)) : SubSeq(str, i + 1, i + Len(term)) = term

----------------------------------------------------------------------------
(* availableProducts: rows *)

NoProductId == <<>>
Letters == <<"a", "b", "A", "B">>
Digits == <<"0", "1", "2", "3", "4", "5", "6", "7", "8", "9">>
Number(k) == <<Digits[((k \div 10) % 10) + 1], Digits[(k % 10) + 1]>>

\* Row k of the combined catalog as getCombinedProducts returns it: of every
\* four rows the second and third are external, and the third has no
\* Salesforce product id yet (it is known by its product code only).
RawProduct(k) ==
    [productId   |-> IF k % 4 = 3 THEN NoProductId ELSE <<"i">> \o Number(k),
     productCode |-> <<"C">> \o Number(k),
     productName |-> <<Letters[((k - 1) % 4) + 1], Letters[(((k - 1) \div 2) % 4) + 1]>>,
     category    |-> <<Letters[(k % 2) + 3]>>,
     brand       |-> IF k % 3 = 0 THEN <<>> ELSE <<"b">>,
     isExternal  |-> (k % 4) \in {2, 3}]

RECURSIVE SelectRows(_, _)
\* Array.prototype.filter for a row predicate given as the set of rows kept.
SelectRows(rows, keep) ==
    IF rows = <<>> THEN <<>>
    ELSE IF Head(rows) \in keep
      THEN <<Head(rows)>> \o SelectRows(Tail(rows), keep)
      ELSE SelectRows(Tail(rows), keep)

Rows(rows) == {rows[i] : i \in DOMAIN rows}

\* What getCombinedProducts answers for a catalog of n rows.
getCombinedProducts(n, withExternal) ==
    LET all == [k \in 1..n |-> RawProduct(k)] IN
    IF withExternal THEN all
    ELSE SelectRows(all, {r \in Rows(all) : ~r.isExternal})

transformProductData(data, activated) ==
    [i \in DOMAIN data |->
        [productId        |-> data[i].productId,
         productCode      |-> data[i].productCode,
         productName      |-> data[i].productName,
         category         |-> data[i].category,
         brand            |-> data[i].brand,
         isExternal       |-> data[i].isExternal,
         sourceIcon       |-> IF data[i].isExternal THEN "utility:world"
                              ELSE "utility:salesforce1",
         sourceBadgeClass |-> IF data[i].isExternal
                              THEN "slds-badge slds-theme_warning"
                              ELSE "slds-badge slds-theme_success",
         isAddedToOrder   |-> FALSE,
         statusLabel      |-> "undefined",
         statusClass      |-> "undefined",
         rowClass         |-> "undefined",
         disableAdd       |-> activated]]

\* The filter of applyFilters: every row when the term is empty, else the rows
\* one of whose four text fields holds the term, letter case of the field
\* ignored.
Matches(product, term) ==
    \/ (Len(product.productName) > 0 /\ includes(toLowerCase(product.productName), term))
    \/ (Len(product.productCode) > 0 /\ includes(toLowerCase(product.productCode), term))
    \/ (Len(product.category) > 0 /\ includes(toLowerCase(product.category), term))
    \/ (Len(product.brand) > 0 /\ includes(toLowerCase(product.brand), term))

\* applyFilters keeping every row whatever the term.
applyFilters_unfiltered(rows, term) == rows

\* applyFilters(): the rows it leaves in filteredProducts.
applyFilters(rows, term) ==
    IF Len(term) > 0
      THEN SelectRows(rows, {r \in Rows(rows) : Matches(r, term)})
      ELSE rows

\* The rows markProductAsAdded leaves for one of the two collections.
markAdded(rows, productId) ==
    [i \in DOMAIN rows |->
        IF rows[i].productId = productId
          THEN [rows[i] EXCEPT !.isAddedToOrder = TRUE,
                               !.statusLabel = "Added",
                               !.statusClass = "slds-text-color_success",
                               !.rowClass = "slds-hint-parent slds-is-selected",
                               !.disableAdd = TRUE]
          ELSE rows[i]]

\* checkActivation leaving the rows of a collection as they are.
withDisableAdd_asLoaded(rows, activated) == rows

\* The rows checkActivation leaves for one of the two collections.
withDisableAdd(rows, activated) ==
    [i \in DOMAIN rows |-> [rows[i] EXCEPT !.disableAdd = activated]]

CountExternal(rows) == Cardinality({i \in DOMAIN rows : rows[i].isExternal})
CountLocal(rows) == Cardinality({i \in DOMAIN rows : ~rows[i].isExternal})

----------------------------------------------------------------------------
(* availableProducts: pagination getters *)

\* Math.ceil(a / b) for a >= 0, b >= 1
Ceil(a, b) == (a + b - 1) \div b

\* totalPages with Math.floor in place of Math.ceil.
totalPagesOf_floor(rows, size) == IF Len(rows) # 0 THEN Len(rows) \div size ELSE 1

totalPagesOf(rows, size) == IF Len(rows) # 0 THEN Ceil(Len(rows), size) ELSE 1

totalPages == totalPagesOf(filteredProducts, pageSize)

\* Array.prototype.slice(start, end) with 0 <= start <= end
slice(rows, start, end) ==
    SubSeq(rows, start + 1, IF end < Len(rows) THEN end ELSE Len(rows))

pagedProductsOf(rows, page, size) ==
    slice(rows, (page - 1) * size, (page - 1) * size + size)

pagedProducts == pagedProductsOf(filteredProducts, currentPage, pageSize)

isFirstPage == currentPage = 1

isLastPage == currentPage >= totalPages

----------------------------------------------------------------------------
(* availableProducts: remote calls and queued promise reactions *)

\* A queued promise reaction: the showStats callback, or the rest of
\* handleAddProduct / handleAddExternalProduct after its awaited loadProducts(),
\* with the identity it adds under and the recordId the add returned.  The
\* same record names the caller of a loadProducts() call.
Reaction(k, productId, recordId) == [k |-> k, productId |-> productId, recordId |-> recordId]
ShowStatsReaction == Reaction("showStats", <<>>, "undefined")
NotAwaited(caller) == Reaction(caller, <<>>, "undefined")
AwaitingCallers == {"handleAddProduct", "handleAddExternalProduct"}

LoadCall(withExternal, then) ==
    [api |-> "getCombinedProducts", includeExternal |-> withExternal, then |-> then]
AddCall(productId) == [api |-> "addProductToOrder", productId |-> productId]
AddExternalCall(product) ==
    [api |-> "addExternalProductToOrder", productId |-> product.productId,
     productCode |-> product.productCode]

\* recordId values an add can return
OrderItemIds == {"orderItem1"}

\* The user-started operations availableProducts has under way: a source
\* toggle until its load settles, an add from its remote call to its
\* setTimeout callback.  (The two calls of connectedCallback are not counted.)
UserCalls ==
    {c \in InFlight(ap_calls) :
        /\ c.api # "isOrderActivated"
        /\ (c.api = "getCombinedProducts" => c.then.k # "connectedCallback")}

ap_pending ==
    BagCardinality([c \in UserCalls |-> ap_calls[c]])
    + Cardinality({i \in DOMAIN microtasks : microtasks[i].k # "showStats"})
    + ap_timers

\* A new task (an event, a response, a timer) starts only when the promise
\* reactions of the previous one have run.
TaskBoundary == microtasks = <<>>

\* dispatchProductAddedEvent's message
ProductAddedMessage(productId, orderItemId) ==
    [productId |-> productId, orderItemId |-> orderItemId, orderId |-> ap_recordId]

----------------------------------------------------------------------------
(* availableProducts: loading *)

\* loadProducts() up to its await, starting from the calls `calls`.
loadProducts(calls, then) ==
    /\ ap_isLoading' = TRUE
    /\ ap_error' = NoError
    /\ currentPage' = 1
    /\ ap_calls' = Put(calls, LoadCall(includeExternal', then))

\* connectedCallback: loadProducts() and checkActivation(), each up to its await.
ap_connectedCallback ==
    /\ TaskBoundary
    /\ ~ap_mounted
    /\ ap_mounted' = TRUE
    /\ includeExternal' = includeExternal
    /\ loadProducts(IF ap_recordId = NoId THEN ap_calls
                    ELSE Put(ap_calls, CheckCall("sent", FALSE)),
                    NotAwaited("connectedCallback"))
    /\ last' = Did("connectedCallback", <<>>, <<>>)
    /\ UNCHANGED <<ap_recordId, products, filteredProducts, searchTerm, sfCount,
                   apiCount, totalCount, showStats, pageSize, ap_isActivated,
                   microtasks, ap_timers>>
    /\ UNCHANGED <<srvActivated, op_vars, lms_vars>>

\* checkActivation after its await: the promise resolved with the server's
\* answer, or rejected (the catch block logs the error).
checkActivation_resume ==
    \E c \in InFlight(ap_calls) :
        /\ TaskBoundary
        /\ c.api = "isOrderActivated"
        /\ ap_calls' = Take(ap_calls, c)
        /\ \/ /\ c.st = "done"
              /\ ap_isActivated' = c.res
              /\ IF Len(products) > 0
                   THEN /\ products' = withDisableAdd(products, c.res)
                        /\ filteredProducts' = withDisableAdd(filteredProducts, c.res)
                   ELSE UNCHANGED <<products, filteredProducts>>
              /\ last' = Did("checkActivation", <<>>, <<>>)
           \/ /\ UNCHANGED <<ap_isActivated, products, filteredProducts>>
              /\ last' = Did("checkActivation", <<>>, <<"console.error">>)
        /\ UNCHANGED <<ap_recordId, ap_mounted, searchTerm, ap_isLoading, ap_error,
                       includeExternal, sfCount, apiCount, totalCount, showStats,
                       pageSize, currentPage, microtasks, ap_timers>>
        /\ UNCHANGED <<srvActivated, op_vars, lms_vars>>

\* The promise reactions a settled loadProducts() leaves queued after `queue`.
AfterLoad(queue, then) ==
    IF then.k \in AwaitingCallers THEN Append(queue, then) ELSE queue

\* loadProducts after its await, keeping filteredProducts when the call failed.
loadProducts_resume_keepsFiltered ==
    \E c \in InFlight(ap_calls) :
        /\ TaskBoundary
        /\ c.api = "getCombinedProducts"
        /\ ap_calls' = Take(ap_calls, c)
        /\ \/ LET rows == transformProductData(
                              getCombinedProducts(MaxCatalog, c.includeExternal),
                              ap_isActivated) IN
              /\ products' = rows
              /\ sfCount' = CountLocal(rows)
              /\ apiCount' = CountExternal(rows)
              /\ totalCount' = Len(rows)
              /\ showStats' = FALSE
              /\ microtasks' = AfterLoad(Append(microtasks, ShowStatsReaction), c.then)
              /\ filteredProducts' = applyFilters(rows, searchTerm)
              /\ currentPage' = 1
              /\ last' = Did("loadProducts", <<>>, <<>>)
              /\ UNCHANGED ap_error
           \/ \E e \in Errors :
                /\ ap_error' = getErrorMessage(e)
                /\ products' = <<>>
                /\ filteredProducts' = filteredProducts
                /\ microtasks' = AfterLoad(microtasks, c.then)
                /\ last' = Did("loadProducts",
                               <<showToast("Error loading products", getErrorMessage(e),
                                           "error")>>, <<>>)
                /\ UNCHANGED <<sfCount, apiCount, totalCount, showStats, currentPage>>
        /\ ap_isLoading' = FALSE
        /\ UNCHANGED <<ap_recordId, ap_mounted, searchTerm, includeExternal, pageSize,
                       ap_isActivated, ap_timers>>
        /\ UNCHANGED <<srvActivated, op_vars, lms_vars>>

\* loadProducts after its await, taking the catalog for the source the
\* view's toggle shows now instead of the one its request named.
loadProducts_resume_currentToggle ==
    \E c \in InFlight(ap_calls) :
        /\ TaskBoundary
        /\ c.api = "getCombinedProducts"
        /\ ap_calls' = Take(ap_calls, c)
        /\ \/ LET rows == transformProductData(
                              getCombinedProducts(MaxCatalog, includeExternal),
                              ap_isActivated) IN
              /\ products' = rows
              /\ sfCount' = CountLocal(rows)
              /\ apiCount' = CountExternal(rows)
              /\ totalCount' = Len(rows)
              /\ showStats' = FALSE
              /\ microtasks' = AfterLoad(Append(microtasks, ShowStatsReaction), c.then)
              /\ filteredProducts' = applyFilters(rows, searchTerm)
              /\ currentPage' = 1
              /\ last' = Did("loadProducts", <<>>, <<>>)
              /\ UNCHANGED ap_error
           \/ \E e \in Errors :
                /\ ap_error' = getErrorMessage(e)
                /\ products' = <<>>
                /\ filteredProducts' = <<>>
                /\ microtasks' = AfterLoad(microtasks, c.then)
                /\ last' = Did("loadProducts",
                               <<showToast("Error loading products", getErrorMessage(e),
                                           "error")>>, <<>>)
                /\ UNCHANGED <<sfCount, apiCount, totalCount, showStats, currentPage>>
        /\ ap_isLoading' = FALSE
        /\ UNCHANGED <<ap_recordId, ap_mounted, searchTerm, includeExternal, pageSize,
                       ap_isActivated, ap_timers>>
        /\ UNCHANGED <<srvActivated, op_vars, lms_vars>>

\* loadProducts after its await: the catalog arrived, or the call failed.
loadProducts_resume ==
    \E c \in InFlight(ap_calls) :
        /\ TaskBoundary
        /\ c.api = "getCombinedProducts"
        /\ ap_calls' = Take(ap_calls, c)
        /\ \/ LET rows == transformProductData(
                              getCombinedProducts(MaxCatalog, c.includeExternal),
                              ap_isActivated) IN
              /\ products' = rows
              /\ sfCount' = CountLocal(rows)
              /\ apiCount' = CountExternal(rows)
              /\ totalCount' = Len(rows)
              /\ showStats' = FALSE
              /\ microtasks' = AfterLoad(Append(microtasks, ShowStatsReaction), c.then)
              /\ filteredProducts' = applyFilters(rows, searchTerm)
              /\ currentPage' = 1
              /\ last' = Did("loadProducts", <<>>, <<>>)
              /\ UNCHANGED ap_error
           \/ \E e \in Errors :
                /\ ap_error' = getErrorMessage(e)
                /\ products' = <<>>
                /\ filteredProducts' = <<>>
                /\ microtasks' = AfterLoad(microtasks, c.then)
                /\ last' = Did("loadProducts",
                               <<showToast("Error loading products", getErrorMessage(e),
                                           "error")>>, <<>>)
                /\ UNCHANGED <<sfCount, apiCount, totalCount, showStats, currentPage>>
        /\ ap_isLoading' = FALSE
        /\ UNCHANGED <<ap_recordId, ap_mounted, searchTerm, includeExternal, pageSize,
                       ap_isActivated, ap_timers>>
        /\ UNCHANGED <<srvActivated, op_vars, lms_vars>>

\* Promise.resolve().then(() => { this.showStats = true; })
showStats_tick ==
    /\ microtasks # <<>>
    /\ Head(microtasks).k = "showStats"
    /\ microtasks' = Tail(microtasks)
    /\ showStats' = TRUE
    /\ last' = Did("showStats", <<>>, <<>>)
    /\ UNCHANGED <<ap_recordId, ap_mounted, products, filteredProducts, searchTerm,
                   ap_isLoading, ap_error, includeExternal, sfCount, apiCount,
                   totalCount, pageSize, currentPage, ap_isActivated, ap_calls,
                   ap_timers>>
    /\ UNCHANGED <<srvActivated, op_vars, lms_vars>>

----------------------------------------------------------------------------
(* availableProducts: search, source toggle, pages *)

\* handleSearch keeping the letter case of the text.
handleSearch_caseSensitive(value) ==
    /\ TaskBoundary
    /\ ap_mounted
    /\ searchTerm' = value
    /\ filteredProducts' = applyFilters(products, searchTerm')
    /\ currentPage' = 1
    /\ last' = Did("handleSearch", <<>>, <<>>)
    /\ UNCHANGED <<ap_recordId, ap_mounted, products, ap_isLoading, ap_error,
                   includeExternal, sfCount, apiCount, totalCount, showStats,
                   pageSize, ap_isActivated, ap_calls, microtasks, ap_timers>>
    /\ UNCHANGED <<srvActivated, op_vars, lms_vars>>

\* handleSearch for the text `value` of the search box.
handleSearch(value) ==
    /\ TaskBoundary
    /\ ap_mounted
    /\ searchTerm' = toLowerCase(value)
    /\ filteredProducts' = applyFilters(products, searchTerm')
    /\ currentPage' = 1
    /\ last' = Did("handleSearch", <<>>, <<>>)
    /\ UNCHANGED <<ap_recordId, ap_mounted, products, ap_isLoading, ap_error,
                   includeExternal, sfCount, apiCount, totalCount, showStats,
                   pageSize, ap_isActivated, ap_calls, microtasks, ap_timers>>
    /\ UNCHANGED <<srvActivated, op_vars, lms_vars>>

handleToggleExternal ==
    \E checked \in BOOLEAN :
        /\ TaskBoundary
        /\ ap_mounted
        /\ ap_pending < MaxPending
        /\ includeExternal' = checked
        /\ loadProducts(ap_calls, NotAwaited("handleToggleExternal"))
        /\ last' = Did("handleToggleExternal", <<>>, <<>>)
        /\ UNCHANGED <<ap_recordId, ap_mounted, products, filteredProducts, searchTerm,
                       sfCount, apiCount, totalCount, showStats, pageSize,
                       ap_isActivated, microtasks, ap_timers>>
        /\ UNCHANGED <<srvActivated, op_vars, lms_vars>>

\* handleNextPage without its check of isLastPage.
handleNextPage_unclamped ==
    /\ TaskBoundary
    /\ ap_mounted
    /\ currentPage' = currentPage + 1
    /\ last' = Did("handleNextPage", <<>>, <<>>)
    /\ UNCHANGED <<ap_recordId, ap_mounted, products, filteredProducts, searchTerm,
                   ap_isLoading, ap_error, includeExternal, sfCount, apiCount,
                   totalCount, showStats, pageSize, ap_isActivated, ap_calls,
                   microtasks, ap_timers>>
    /\ UNCHANGED <<srvActivated, op_vars, lms_vars>>

handleNextPage ==
    /\ TaskBoundary
    /\ ap_mounted
    /\ currentPage' = IF ~isLastPage THEN currentPage + 1 ELSE currentPage
    /\ last' = Did("handleNextPage", <<>>, <<>>)
    /\ UNCHANGED <<ap_recordId, ap_mounted, products, filteredProducts, searchTerm,
                   ap_isLoading, ap_error, includeExternal, sfCount, apiCount,
                   totalCount, showStats, pageSize, ap_isActivated, ap_calls,
                   microtasks, ap_timers>>
    /\ UNCHANGED <<srvActivated, op_vars, lms_vars>>

handlePrevPage ==
    /\ TaskBoundary
    /\ ap_mounted
    /\ currentPage' = IF ~isFirstPage THEN currentPage - 1 ELSE currentPage
    /\ last' = Did("handlePrevPage", <<>>, <<>>)
    /\ UNCHANGED <<ap_recordId, ap_mounted, products, filteredProducts, searchTerm,
                   ap_isLoading, ap_error, includeExternal, sfCount, apiCount,
                   totalCount, showStats, pageSize, ap_isActivated, ap_calls,
                   microtasks, ap_timers>>
    /\ UNCHANGED <<srvActivated, op_vars, lms_vars>>

----------------------------------------------------------------------------
(* availableProducts: adding a product to the order *)

\* markProductAsAdded marking the row in products only.
markProductAsAdded_productsOnly(productId) ==
    /\ products' = markAdded(products, productId)
    /\ filteredProducts' = filteredProducts
    /\ sfCount' = CountLocal(products')
    /\ apiCount' = CountExternal(products')
    /\ totalCount' = Len(products')
    /\ showStats' = FALSE

\* markProductAsAdded(productId)
markProductAsAdded(productId) ==
    /\ products' = markAdded(products, productId)
    /\ filteredProducts' = markAdded(filteredProducts, productId)
    /\ sfCount' = CountLocal(products')
    /\ apiCount' = CountExternal(products')
    /\ totalCount' = Len(products')
    /\ showStats' = FALSE

\* handleAddProduct(productId) up to its await.
handleAddProduct(productId) ==
    /\ TaskBoundary
    /\ ap_mounted
    /\ IF productId = NoProductId \/ ap_recordId = NoId
         THEN /\ last' = Did("handleAddProduct",
                             <<showToast("Error", "Missing product or order information",
                                         "error")>>, <<>>)
              /\ UNCHANGED <<ap_isLoading, ap_calls>>
         ELSE /\ ap_pending < MaxPending
              /\ ap_isLoading' = TRUE
              /\ ap_calls' = Put(ap_calls, AddCall(productId))
              /\ last' = Did("handleAddProduct", <<>>, <<>>)
    /\ UNCHANGED <<ap_recordId, ap_mounted, products, filteredProducts, searchTerm,
                   ap_error, includeExternal, sfCount, apiCount, totalCount,
                   showStats, pageSize, currentPage, ap_isActivated, microtasks,
                   ap_timers>>
    /\ UNCHANGED <<srvActivated, op_vars, lms_vars>>

\* handleAddExternalProduct(product) up to its await, for a row object.
handleAddExternalProduct(product) ==
    /\ TaskBoundary
    /\ ap_mounted
    /\ IF ap_recordId = NoId
         THEN /\ last' = Did("handleAddExternalProduct",
                             <<showToast("Error", "Missing order or product information",
                                         "error")>>, <<>>)
              /\ UNCHANGED <<ap_isLoading, ap_calls>>
         ELSE /\ ap_pending < MaxPending
              /\ ap_isLoading' = TRUE
              /\ ap_calls' = Put(ap_calls, AddExternalCall(product))
              /\ last' = Did("handleAddExternalProduct", <<>>, <<>>)
    /\ UNCHANGED <<ap_recordId, ap_mounted, products, filteredProducts, searchTerm,
                   ap_error, includeExternal, sfCount, apiCount, totalCount,
                   showStats, pageSize, currentPage, ap_isActivated, microtasks,
                   ap_timers>>
    /\ UNCHANGED <<srvActivated, op_vars, lms_vars>>

\* handleRowAction for the 'add_product' button of a row the table shows.
ap_handleRowAction ==
    \E i \in DOMAIN pagedProducts :
        LET row == pagedProducts[i] IN
        IF row.isExternal
          THEN handleAddExternalProduct(row)
          ELSE handleAddProduct(row.productId)

\* handleAddProduct called without going through the table.
handleAddProduct_direct ==
    \E productId \in {NoProductId} \cup {products[i].productId : i \in DOMAIN products} :
        handleAddProduct(productId)

\* handleAddProduct after the await of addProductToOrder, repeating the call
\* by itself when the add failed.
handleAddProduct_resume_retry ==
    \E c \in InFlight(ap_calls) :
        /\ TaskBoundary
        /\ c.api = "addProductToOrder"
        /\ \/ \E recordId \in OrderItemIds :
                /\ includeExternal' = includeExternal
                /\ loadProducts(Take(ap_calls, c),
                                Reaction("handleAddProduct", c.productId, recordId))
                /\ last' = Did("handleAddProduct_resume", <<>>, <<>>)
           \/ /\ ap_calls' = ap_calls
              /\ ap_isLoading' = FALSE
              /\ last' = Did("handleAddProduct_resume",
                             <<showToast("Error", ServerMessage, "error")>>, <<>>)
              /\ UNCHANGED <<ap_error, currentPage, includeExternal>>
        /\ UNCHANGED <<ap_recordId, ap_mounted, products, filteredProducts, searchTerm,
                       sfCount, apiCount, totalCount, showStats, pageSize,
                       ap_isActivated, microtasks, ap_timers>>
        /\ UNCHANGED <<srvActivated, op_vars, lms_vars>>

\* handleAddProduct after the await of addProductToOrder, going on to
\* loadProducts() and the rest of the add when the result says success = false.
handleAddProduct_resume_continuesOnFailure ==
    \E c \in InFlight(ap_calls) :
        /\ TaskBoundary
        /\ c.api = "addProductToOrder"
        /\ \/ \E recordId \in OrderItemIds :
                /\ includeExternal' = includeExternal
                /\ loadProducts(Take(ap_calls, c),
                                Reaction("handleAddProduct", c.productId, recordId))
                /\ last' = Did("handleAddProduct_resume", <<>>, <<>>)
           \/ /\ includeExternal' = includeExternal
              /\ loadProducts(Take(ap_calls, c),
                              Reaction("handleAddProduct", c.productId, "undefined"))
              /\ last' = Did("handleAddProduct_resume",
                             <<showToast("Error", ServerMessage, "error")>>, <<>>)
        /\ UNCHANGED <<ap_recordId, ap_mounted, products, filteredProducts, searchTerm,
                       sfCount, apiCount, totalCount, showStats, pageSize,
                       ap_isActivated, microtasks, ap_timers>>
        /\ UNCHANGED <<srvActivated, op_vars, lms_vars>>

\* handleAddProduct after the await of addProductToOrder: on success it calls
\* loadProducts() and awaits it; else it reports and clears isLoading.
handleAddProduct_resume ==
    \E c \in InFlight(ap_calls) :
        /\ TaskBoundary
        /\ c.api = "addProductToOrder"
        /\ \/ \E recordId \in OrderItemIds :
                /\ includeExternal' = includeExternal
                /\ loadProducts(Take(ap_calls, c),
                                Reaction("handleAddProduct", c.productId, recordId))
                /\ last' = Did("handleAddProduct_resume", <<>>, <<>>)
           \/ /\ ap_calls' = Take(ap_calls, c)
              /\ ap_isLoading' = FALSE
              /\ last' = Did("handleAddProduct_resume",
                             <<showToast("Error", ServerMessage, "error")>>, <<>>)
              /\ UNCHANGED <<ap_error, currentPage, includeExternal>>
           \/ \E e \in Errors :
                /\ ap_calls' = Take(ap_calls, c)
                /\ ap_isLoading' = FALSE
                /\ last' = Did("handleAddProduct_resume",
                               <<showToast("Error adding product", getErrorMessage(e),
                                           "error")>>, <<>>)
                /\ UNCHANGED <<ap_error, currentPage, includeExternal>>
        /\ UNCHANGED <<ap_recordId, ap_mounted, products, filteredProducts, searchTerm,
                       sfCount, apiCount, totalCount, showStats, pageSize,
                       ap_isActivated, microtasks, ap_timers>>
        /\ UNCHANGED <<srvActivated, op_vars, lms_vars>>

\* handleAddProduct after the await of loadProducts(): the row is marked, the
\* message published, the refresh scheduled; finally isLoading is cleared.
handleAddProduct_finish ==
    /\ microtasks # <<>>
    /\ Head(microtasks).k = "handleAddProduct"
    /\ markProductAsAdded(Head(microtasks).productId)
    /\ microtasks' = Append(Tail(microtasks), ShowStatsReaction)
    /\ ap_timers' = ap_timers + 1
    /\ ap_isLoading' = FALSE
    /\ last' = DidPublish("handleAddProduct_finish",
                          <<showToast("Success", ServerMessage, "success")>>, <<>>,
                          <<ProductAddedMessage(Head(microtasks).productId,
                                                Head(microtasks).recordId)>>)
    /\ publish(<<ProductAddedMessage(Head(microtasks).productId,
                                      Head(microtasks).recordId)>>)
    /\ UNCHANGED <<ap_recordId, ap_mounted, searchTerm, ap_error, includeExternal,
                   pageSize, currentPage, ap_isActivated, ap_calls>>
    /\ UNCHANGED <<srvActivated, op_vars, lmsListeners>>

\* product.productId || product.productCode
ExternalIdentity(product) ==
    IF product.productId # NoProductId THEN product.productId ELSE product.productCode

\* handleAddExternalProduct after the await of addExternalProductToOrder: on
\* success it marks the row, then calls loadProducts() and awaits it; else it
\* reports (the result may be null) and clears isLoading.
handleAddExternalProduct_resume ==
    \E c \in InFlight(ap_calls) :
        /\ TaskBoundary
        /\ c.api = "addExternalProductToOrder"
        /\ \/ \E recordId \in OrderItemIds :
                /\ markProductAsAdded(ExternalIdentity(c))
                /\ microtasks' = Append(microtasks, ShowStatsReaction)
                /\ includeExternal' = includeExternal
                /\ loadProducts(Take(ap_calls, c),
                                Reaction("handleAddExternalProduct",
                                         ExternalIdentity(c), recordId))
                /\ last' = Did("handleAddExternalProduct_resume", <<>>, <<>>)
           \/ \E message \in {ServerMessage, "Failed to add external product"} :
                /\ ap_calls' = Take(ap_calls, c)
                /\ ap_isLoading' = FALSE
                /\ last' = Did("handleAddExternalProduct_resume",
                               <<showToast("Error", message, "error")>>, <<>>)
                /\ UNCHANGED <<ap_error, currentPage, includeExternal, products,
                               filteredProducts, sfCount, apiCount, totalCount,
                               showStats, microtasks>>
           \/ \E e \in Errors :
                /\ ap_calls' = Take(ap_calls, c)
                /\ ap_isLoading' = FALSE
                /\ last' = Did("handleAddExternalProduct_resume",
                               <<showToast("Error adding external product",
                                           getErrorMessage(e), "error")>>, <<>>)
                /\ UNCHANGED <<ap_error, currentPage, includeExternal, products,
                               filteredProducts, sfCount, apiCount, totalCount,
                               showStats, microtasks>>
        /\ UNCHANGED <<ap_recordId, ap_mounted, searchTerm, pageSize, ap_isActivated,
                       ap_timers>>
        /\ UNCHANGED <<srvActivated, op_vars, lms_vars>>

\* handleAddExternalProduct after the await of loadProducts(): the message is
\* published, the refresh scheduled; finally isLoading is cleared.
handleAddExternalProduct_finish ==
    /\ microtasks # <<>>
    /\ Head(microtasks).k = "handleAddExternalProduct"
    /\ microtasks' = Tail(microtasks)
    /\ ap_timers' = ap_timers + 1
    /\ ap_isLoading' = FALSE
    /\ last' = DidPublish("handleAddExternalProduct_finish",
                          <<showToast("Success", ServerMessage, "success")>>, <<>>,
                          <<ProductAddedMessage(Head(microtasks).productId,
                                                Head(microtasks).recordId)>>)
    /\ publish(<<ProductAddedMessage(Head(microtasks).productId,
                                      Head(microtasks).recordId)>>)
    /\ UNCHANGED <<ap_recordId, ap_mounted, products, filteredProducts, searchTerm,
                   ap_error, includeExternal, sfCount, apiCount, totalCount,
                   showStats, pageSize, currentPage, ap_isActivated, ap_calls>>
    /\ UNCHANGED <<srvActivated, op_vars, lmsListeners>>

\* The setTimeout(.., 500) callback of an add: refreshCurrentRecordView().
ap_refreshTimer ==
    /\ TaskBoundary
    /\ ap_timers > 0
    /\ ap_timers' = ap_timers - 1
    /\ last' = Did("refreshCurrentRecordView", <<>>, <<"navigate">>)
    /\ UNCHANGED <<ap_recordId, ap_mounted, products, filteredProducts, searchTerm,
                   ap_isLoading, ap_error, includeExternal, sfCount, apiCount,
                   totalCount, showStats, pageSize, currentPage, ap_isActivated,
                   ap_calls, microtasks>>
    /\ UNCHANGED <<srvActivated, op_vars, lms_vars>>

----------------------------------------------------------------------------
(* The Order Line View with the server *)

\* The fields of a new orderProducts instance.
op_constructor ==
    /\ op_mounted = FALSE
    /\ subscription = NoSubscription
    /\ orderItems = <<>>
    /\ op_isLoading = FALSE
    /\ isActivating = FALSE
    /\ op_isActivated = FALSE
    /\ op_error = NoError
    /\ wiredOrderItemsResult = FALSE
    /\ op_calls = EmptyBag
    /\ op_timers = <<>>

\* The message channel with no listener and no message.
lms_constructor ==
    /\ lmsListeners = 0
    /\ lmsQueue = EmptyBag

\* The fields of a new availableProducts instance.
ap_constructor ==
    /\ ap_mounted = FALSE
    /\ products = <<>>
    /\ filteredProducts = <<>>
    /\ searchTerm = <<>>
    /\ ap_isLoading = FALSE
    /\ ap_error = NoError
    /\ includeExternal = TRUE
    /\ sfCount = 0
    /\ apiCount = 0
    /\ totalCount = 0
    /\ showStats = FALSE
    /\ pageSize = DefaultPageSize
    /\ currentPage = 1
    /\ ap_isActivated = FALSE
    /\ ap_calls = EmptyBag
    /\ microtasks = <<>>
    /\ ap_timers = 0

InitOrder ==
    /\ srvActivated \in BOOLEAN
    /\ op_recordId \in RecordIds
    /\ op_constructor
    /\ ap_recordId = NoId
    /\ ap_constructor
    /\ lms_constructor
    /\ last = Did("constructor", <<>>, <<>>)

NextOrder ==
    \/ OrderActivatedElsewhere
    \/ op_isOrderActivated_serve
    \/ activateOrder_serve
    \/ op_connectedCallback
    \/ op_disconnectedCallback
    \/ wiredOrderItems
    \/ checkOrderActivationStatus_resume
    \/ refreshApex_settle
    \/ handleActivateOrder
    \/ handleActivateOrder_resume
    \/ op_handleRowAction
    \/ op_handleRowAction_resume

SpecOrder == InitOrder /\ [][NextOrder]_vars

----------------------------------------------------------------------------
(* The Product List View with the server *)

InitCatalog ==
    /\ srvActivated \in BOOLEAN
    /\ op_recordId = NoId
    /\ op_constructor
    /\ ap_recordId \in RecordIds
    /\ ap_constructor
    /\ lms_constructor
    /\ last = Did("constructor", <<>>, <<>>)

\* texts typed in the search box
SearchInputs == {<<>>, <<"a">>, <<"A">>}

NextCatalog ==
    \/ OrderActivatedElsewhere
    \/ ap_isOrderActivated_serve
    \/ ap_connectedCallback
    \/ checkActivation_resume
    \/ loadProducts_resume
    \/ showStats_tick
    \/ \E value \in SearchInputs : handleSearch(value)
    \/ handleToggleExternal
    \/ handleNextPage
    \/ handlePrevPage
    \/ ap_handleRowAction
    \/ handleAddProduct_direct
    \/ handleAddProduct_resume
    \/ handleAddProduct_finish
    \/ handleAddExternalProduct_resume
    \/ handleAddExternalProduct_finish
    \/ ap_refreshTimer

SpecCatalog == InitCatalog /\ [][NextCatalog]_vars

----------------------------------------------------------------------------
(* The Product List View browsing a loaded catalog: search and pages *)

\* texts typed in the search box
BrowseInputs == {<<>>, <<"a">>, <<"A">>, <<"a", "B">>, <<"A", "b">>, <<"c", "0">>}

\* The view after loadProducts() has loaded a catalog of n rows, for each n up
\* to MaxRows and each page size up to MaxPageSize.
InitBrowse ==
    /\ srvActivated = FALSE
    /\ op_recordId = NoId
    /\ op_constructor
    /\ lms_constructor
    /\ ap_recordId = OrderId
    /\ ap_mounted = TRUE
    /\ \E n \in 0..MaxRows :
         products = transformProductData(getCombinedProducts(n, TRUE), FALSE)
    /\ filteredProducts = products
    /\ searchTerm = <<>>
    /\ ap_isLoading = FALSE
    /\ ap_error = NoError
    /\ includeExternal = TRUE
    /\ sfCount = CountLocal(products)
    /\ apiCount = CountExternal(products)
    /\ totalCount = Len(products)
    /\ showStats = TRUE
    /\ pageSize \in 1..MaxPageSize
    /\ currentPage = 1
    /\ ap_isActivated = FALSE
    /\ ap_calls = EmptyBag
    /\ microtasks = <<>>
    /\ ap_timers = 0
    /\ last = Did("loadProducts", <<>>, <<>>)

NextBrowse ==
    \/ \E value \in BrowseInputs : handleSearch(value)
    \/ handleNextPage
    \/ handlePrevPage

SpecBrowse == InitBrowse /\ [][NextBrowse]_vars

----------------------------------------------------------------------------
(* The Product List View turning pages while it reloads *)

\* The view after loadProducts() has loaded a catalog of n rows, for each n up
\* to MaxRows, with the page size of the component.
InitPaging ==
    /\ srvActivated = FALSE
    /\ op_recordId = NoId
    /\ op_constructor
    /\ lms_constructor
    /\ ap_recordId = OrderId
    /\ ap_mounted = TRUE
    /\ \E n \in 0..MaxRows :
         products = transformProductData(getCombinedProducts(n, TRUE), FALSE)
    /\ filteredProducts = products
    /\ searchTerm = <<>>
    /\ ap_isLoading = FALSE
    /\ ap_error = NoError
    /\ includeExternal = TRUE
    /\ sfCount = CountLocal(products)
    /\ apiCount = CountExternal(products)
    /\ totalCount = Len(products)
    /\ showStats = TRUE
    /\ pageSize = DefaultPageSize
    /\ currentPage = 1
    /\ ap_isActivated = FALSE
    /\ ap_calls = EmptyBag
    /\ microtasks = <<>>
    /\ ap_timers = 0
    /\ last = Did("loadProducts", <<>>, <<>>)

NextPaging ==
    \/ \E value \in SearchInputs : handleSearch(value)
    \/ handleNextPage
    \/ handlePrevPage
    \/ handleToggleExternal
    \/ loadProducts_resume
    \/ showStats_tick

SpecPaging == InitPaging /\ [][NextPaging]_vars

----------------------------------------------------------------------------
(* The Product List View searching while it loads, checks and adds *)

\* texts typed in the search box: none, and one that some rows of the catalog
\* hold and others do not
FilterInputs == {<<>>, <<"B", "a">>}

NextSearch ==
    \/ OrderActivatedElsewhere
    \/ ap_isOrderActivated_serve
    \/ ap_connectedCallback
    \/ checkActivation_resume
    \/ loadProducts_resume
    \/ showStats_tick
    \/ \E value \in FilterInputs : handleSearch(value)
    \/ ap_handleRowAction
    \/ handleAddProduct_resume
    \/ handleAddProduct_finish
    \/ handleAddExternalProduct_resume
    \/ handleAddExternalProduct_finish
    \/ ap_refreshTimer

SpecSearch == InitCatalog /\ [][NextSearch]_vars

----------------------------------------------------------------------------
(* The Order Line View on the message channel *)

InitChannel ==
    /\ srvActivated = FALSE
    /\ op_recordId \in RecordIds
    /\ op_constructor
    /\ ap_recordId = NoId
    /\ ap_constructor
    /\ lms_constructor
    /\ last = Did("constructor", <<>>, <<>>)

NextChannel ==
    \/ op_connectedCallback
    \/ op_connectedCallback_direct
    \/ op_disconnectedCallback
    \/ op_disconnectedCallback_direct
    \/ op_isOrderActivated_serve
    \/ checkOrderActivationStatus_resume
    \/ wiredOrderItems
    \/ refreshApex_settle
    \/ lms_publish
    \/ handleProductAddedMessage
    \/ op_reloadTimer
    \/ op_refreshTimer

\* The browser runs a timer that is due: a callback that can run does run.
SpecChannel ==
    /\ InitChannel
    /\ [][NextChannel]_vars
    /\ WF_vars(op_reloadTimer)
    /\ WF_vars(op_refreshTimer)

----------------------------------------------------------------------------
(* Both views on the record page of one order *)

\* The record page once both views have mounted and loaded: the Order Line
\* View holds its subscription and a first delivery of the live query, the
\* Product List View the catalog of its first loadProducts().
InitPage ==
    /\ srvActivated = FALSE
    /\ op_recordId = OrderId
    /\ op_mounted = TRUE
    /\ subscription = Subscribed
    /\ \E result \in {r \in WireResults : r.kind = "data"} :
         orderItems = decorateRows(result.data, FALSE)
    /\ op_isLoading = FALSE
    /\ isActivating = FALSE
    /\ op_isActivated = FALSE
    /\ op_error = NoError
    /\ wiredOrderItemsResult = TRUE
    /\ op_calls = EmptyBag
    /\ op_timers = <<>>
    /\ lmsListeners = 1
    /\ lmsQueue = EmptyBag
    /\ ap_recordId = OrderId
    /\ ap_mounted = TRUE
    /\ products = transformProductData(getCombinedProducts(MaxCatalog, TRUE), FALSE)
    /\ filteredProducts = products
    /\ searchTerm = <<>>
    /\ ap_isLoading = FALSE
    /\ ap_error = NoError
    /\ includeExternal = TRUE
    /\ sfCount = CountLocal(products)
    /\ apiCount = CountExternal(products)
    /\ totalCount = Len(products)
    /\ showStats = TRUE
    /\ pageSize = DefaultPageSize
    /\ currentPage = 1
    /\ ap_isActivated = FALSE
    /\ ap_calls = EmptyBag
    /\ microtasks = <<>>
    /\ ap_timers = 0
    /\ last = Did("loadProducts", <<>>, <<>>)

NextPage ==
    \/ ap_handleRowAction
    \/ handleAddProduct_direct
    \/ handleAddProduct_resume
    \/ handleAddProduct_finish
    \/ handleAddExternalProduct_resume
    \/ handleAddExternalProduct_finish
    \/ loadProducts_resume
    \/ showStats_tick
    \/ ap_refreshTimer
    \/ handleProductAddedMessage
    \/ op_reloadTimer
    \/ op_refreshTimer
    \/ refreshApex_settle

SpecPage == InitPage /\ [][NextPage]_vars

----------------------------------------------------------------------------
(* Both views checking the activation status of one order *)

InitChecks ==
    /\ srvActivated \in BOOLEAN
    /\ op_recordId = OrderId
    /\ op_constructor
    /\ ap_recordId = OrderId
    /\ ap_constructor
    /\ lms_constructor
    /\ last = Did("constructor", <<>>, <<>>)

NextChecks ==
    \/ OrderActivatedElsewhere
    \/ op_connectedCallback
    \/ op_disconnectedCallback
    \/ op_isOrderActivated_serve
    \/ checkOrderActivationStatus_resume
    \/ wiredOrderItems
    \/ ap_connectedCallback
    \/ ap_isOrderActivated_serve
    \/ checkActivation_resume
    \/ loadProducts_resume
    \/ showStats_tick

SpecChecks == InitChecks /\ [][NextChecks]_vars

----------------------------------------------------------------------------
(* The Order Line View showing priced rows *)

InitTotals ==
    /\ srvActivated = FALSE
    /\ op_recordId = OrderId
    /\ op_constructor
    /\ ap_recordId = NoId
    /\ ap_constructor
    /\ lms_constructor
    /\ last = Did("constructor", <<>>, <<>>)

NextTotals ==
    \/ op_connectedCallback
    \/ op_isOrderActivated_serve
    \/ checkOrderActivationStatus_resume
    \/ wiredOrderItems_priced
    \/ activateOrder_serve
    \/ handleActivateOrder
    \/ handleActivateOrder_resume

SpecTotals == InitTotals /\ [][NextTotals]_vars

----------------------------------------------------------------------------
(* Claims about the Order Line View *)

\* C1: in each view isActivated is monotonic: no step of any execution takes
\* it from true back to false.
C1_ActivationMonotonic ==
    [][/\ op_isActivated => op_isActivated'
       /\ ap_isActivated => ap_isActivated']_vars

\* C3: a 'remove' row action run while isActivated is true issues no remote
\* call, dispatches exactly the warning toast, and leaves orderItems,
\* isLoading and the live query as they were.
C3_RemoveRejectedWhenActivated ==
    [][(op_isActivated /\ last'.op = "handleRowAction") =>
         /\ op_calls' = op_calls
         /\ last'.toasts =
              <<showToast("Warning", "Cannot remove products from an activated order",
                          "warning")>>
         /\ last'.effects = <<>>
         /\ UNCHANGED <<orderItems, op_isLoading, wiredOrderItemsResult>>]_vars

\* C3 witness: the remove action has run on an activated order with rows.
C3_Witness ==
    /\ op_isActivated
    /\ Len(orderItems) > 0
    /\ last.op = "handleRowAction"
    /\ Len(last.toasts) = 1

\* C4: handleActivateOrder with the order id missing, the order already
\* activated or no rows issues no remote call, leaves isActivating and
\* isActivated alone and dispatches exactly one toast.
C4_ActivateGuards ==
    [][(/\ last'.op = "handleActivateOrder"
        /\ (op_recordId = NoId \/ op_isActivated \/ Len(orderItems) = 0)) =>
         /\ op_calls' = op_calls
         /\ isActivating' = isActivating
         /\ op_isActivated' = op_isActivated
         /\ Len(last'.toasts) = 1
         /\ last'.effects = <<>>]_vars

\* C4 witness: handleActivateOrder was refused for an order that has a record
\* id and is not activated, because it has no rows.
C4_Witness ==
    /\ last.op = "handleActivateOrder"
    /\ op_recordId # NoId
    /\ ~op_isActivated
    /\ Len(orderItems) = 0
    /\ Len(last.toasts) = 1

\* C5: activation is the one-way machine Inactive -> Activating -> Activated:
\* isActivating rises only when isActivated is false and a row is present, a
\* failed activation ends with isActivating and isActivated false, a
\* successful one ends with isActivated true and the page reload started,
\* and no step leaves Activated.
C5_ActivationStateMachine ==
    [][/\ (~isActivating /\ isActivating') =>
            (~op_isActivated /\ Len(orderItems) > 0)
       /\ (last'.op = "handleActivateOrder_resume"
             /\ last'.toasts[1].variant = "error") =>
            (~isActivating' /\ ~op_isActivated')
       /\ (last'.op = "handleActivateOrder_resume"
             /\ last'.toasts[1].variant = "success") =>
            (~isActivating' /\ op_isActivated' /\ last'.effects = <<"location.reload">>)
       /\ op_isActivated => op_isActivated']_vars

\* C19: between the steps of the Order Line View's handlers every row of
\* orderItems has removeDisabled equal to the view's isActivated.
C19_RowsFollowActivation ==
    \A i \in DOMAIN orderItems : orderItems[i].removeDisabled = op_isActivated

\* the sum of the prices of the rows with index in S, a missing price as 0
RECURSIVE C20_SumOver(_)
C20_SumOver(S) ==
    IF S = {} THEN 0
    ELSE LET i == CHOOSE j \in S : TRUE
             price == IF orderItems[i].totalPrice = <<>>
                        THEN 0
                        ELSE orderItems[i].totalPrice[1]
         IN  price + C20_SumOver(S \ {i})

\* C20: totalOrderAmount is the sum of the rows' totalPrice, a missing or
\* zero price counting as 0, and is 0 for no rows; orderItemsCount is the
\* number of rows.
C20_TotalIsSumOfRows ==
    /\ totalOrderAmount = C20_SumOver(DOMAIN orderItems)
    /\ orderItems = <<>> => totalOrderAmount = 0
    /\ orderItemsCount = Cardinality(DOMAIN orderItems)

\* The live query has delivered two rows, one without a price and one with
\* an amount.
C20_Witness ==
    /\ last.op = "wiredOrderItems"
    /\ \E i \in DOMAIN orderItems : orderItems[i].totalPrice = <<>>
    /\ \E i \in DOMAIN orderItems : orderItems[i].totalPrice = <<5>>
    /\ totalOrderAmount = 5
    /\ orderItemsCount = 2

\* the activateOrder calls awaiting their response
C26_ActivationsInFlight ==
    BagCardinality([c \in {d \in InFlight(op_calls) : d.api = "activateOrder"}
                      |-> op_calls[c]])

\* C26: at most one activateOrder call is in flight (handleActivateOrder run
\* while one is outstanding adds none), and isActivating is true exactly
\* while an activation call is outstanding.
C26_OneActivationAtATime ==
    /\ C26_ActivationsInFlight <= 1
    /\ isActivating <=> C26_ActivationsInFlight > 0

----------------------------------------------------------------------------
(* Claims about the Product List View *)

\* C2: an add action run while the Product List View's isActivated is true
\* stops at a local guard: it issues no addProductToOrder or
\* addExternalProductToOrder call and publishes no ProductAddedEvent.
C2_AddRejectedWhenActivated ==
    [][(ap_isActivated /\ last'.op \in {"handleAddProduct", "handleAddExternalProduct"}) =>
         /\ ap_calls' = ap_calls
         /\ ap_isLoading' = ap_isLoading
         /\ last'.published = <<>>]_vars

\* the pages 1..n of filteredProducts, one after the other
RECURSIVE C6_Pages(_)
C6_Pages(n) ==
    IF n = 0 THEN <<>>
    ELSE C6_Pages(n - 1) \o pagedProductsOf(filteredProducts, n, pageSize)

\* C6: for a filtered length L and a page size P >= 1, totalPages is
\* max(1, ceil(L/P)) (the least count of pages of P rows that holds L rows,
\* and 1 for no rows), and the slices of the pages 1..totalPages are pairwise
\* disjoint and, taken in page order, make up filteredProducts exactly.
C6_Pagination ==
    LET L == Len(filteredProducts)
        P == pageSize
        page(p) == pagedProductsOf(filteredProducts, p, pageSize)
    IN  /\ totalPages >= 1
        /\ L = 0 => totalPages = 1
        /\ L > 0 => ((totalPages - 1) * P < L /\ L <= totalPages * P)
        /\ C6_Pages(totalPages) = filteredProducts
        /\ \A p, q \in 1..totalPages :
             p < q => Rows(page(p)) \cap Rows(page(q)) = {}

\* C6 witness: 25 filtered rows in pages of 10, the table on the third and
\* last page, which holds the five rows left.
C6_Witness ==
    /\ Len(filteredProducts) = 25
    /\ pageSize = 10
    /\ totalPages = 3
    /\ currentPage = 3
    /\ pagedProducts = SubSeq(filteredProducts, 21, 25)

\* C7: handleNextPage leaves currentPage alone on the last page and else
\* adds exactly 1, handlePrevPage leaves it alone on page 1 and else takes
\* exactly 1 off, and neither changes products, filteredProducts or
\* searchTerm.
C7_PageStepsClamped ==
    [][/\ last'.op = "handleNextPage" =>
            currentPage' = (IF currentPage >= totalPages THEN currentPage
                            ELSE currentPage + 1)
       /\ last'.op = "handlePrevPage" =>
            currentPage' = (IF currentPage = 1 THEN currentPage ELSE currentPage - 1)
       /\ last'.op \in {"handleNextPage", "handlePrevPage"} =>
            UNCHANGED <<products, filteredProducts, searchTerm>>]_vars

\* C7 witness: 25 rows in pages of 10 and handleNextPage has run with the
\* table on page 3.
C7_Witness ==
    /\ last.op = "handleNextPage"
    /\ Len(filteredProducts) = 25
    /\ pageSize = 10
    /\ currentPage = 3

\* two characters that are equal but for their letter case
C8_SameLetter(a, b) ==
    a = b \/ {a, b} \in {{"a", "A"}, {"b", "B"}, {"c", "C"}}

\* the text `field` contains the text `term`, letter case ignored
C8_Contains(field, term) ==
    \E i \in 0..(Len(field) - Len(term)) :
        \A j \in 1..Len(term) : C8_SameLetter(field[i + j], term[j])

\* the rows of products a search for `value` is to keep, in their order
C8_Expected(value) ==
    SelectRows(products,
               {r \in Rows(products) :
                   \/ value = <<>>
                   \/ \E field \in {r.productName, r.productCode, r.category, r.brand} :
                        C8_Contains(field, value)})

\* C8: after handleSearch(term) filteredProducts is exactly the sub-sequence
\* of products whose name, code, category or brand contains the term with
\* letter case ignored (all of products for the empty term), so it is a
\* subset of products and terms that differ in letter case only give the
\* same rows; and currentPage is 1.
C8_SearchFilters ==
    [][\A value \in BrowseInputs :
         handleSearch(value) =>
           /\ filteredProducts' = C8_Expected(value)
           /\ Rows(filteredProducts') \subseteq Rows(products)
           /\ currentPage' = 1]_vars

\* C8 witness: a search for the two letters a and b has kept some rows of
\* the catalog and dropped others.
C8_Witness ==
    /\ last.op = "handleSearch"
    /\ searchTerm = <<"a", "b">>
    /\ Len(filteredProducts) > 0
    /\ Len(filteredProducts) < Len(products)
    /\ currentPage = 1

\* the row is shown as added
C9_Marked(row) == row.isAddedToOrder /\ row.disableAdd

\* C9: when handleAddProduct finishes after a successful add, every row with
\* the added productId is marked as added (isAddedToOrder and disableAdd
\* true) in products and in filteredProducts, and the handler has published
\* exactly one ProductAddedEvent, on this last step, carrying the productId,
\* the recordId the add returned as orderItemId, and the view's recordId as
\* orderId.
C9_LocalAddMarksAndPublishes ==
    [][/\ last'.op = "handleAddProduct_finish" =>
            LET added == Head(microtasks) IN
            /\ \A i \in DOMAIN products' :
                 products'[i].productId = added.productId => C9_Marked(products'[i])
            /\ \A i \in DOMAIN filteredProducts' :
                 filteredProducts'[i].productId = added.productId =>
                     C9_Marked(filteredProducts'[i])
            /\ last'.published =
                 <<[productId |-> added.productId, orderItemId |-> added.recordId,
                    orderId |-> ap_recordId]>>
       /\ last'.op \in {"handleAddProduct", "handleAddProduct_resume"} =>
            last'.published = <<>>]_vars

\* C9 witness: handleAddProduct has finished for a row both collections hold,
\* on an order that is not activated, and published its event.
C9_Witness ==
    /\ last.op = "handleAddProduct_finish"
    /\ ~ap_isActivated
    /\ Len(last.published) = 1
    /\ \E i \in DOMAIN filteredProducts :
         /\ filteredProducts[i].productId = last.published[1].productId
         /\ C9_Marked(filteredProducts[i])
    /\ \E i \in DOMAIN products :
         /\ products[i].productId = last.published[1].productId
         /\ C9_Marked(products[i])

\* the row is shown as added, as markProductAsAdded shows it
C10_Marked(row) ==
    /\ row.isAddedToOrder
    /\ row.statusLabel = "Added"
    /\ row.statusClass = "slds-text-color_success"
    /\ row.rowClass = "slds-hint-parent slds-is-selected"
    /\ row.disableAdd

\* C10: when handleAddExternalProduct finishes after a successful add, its
\* reload included, the added row is marked as added (status label, styling,
\* disableAdd true) in products and in filteredProducts.
C10_ExternalAddMarksRow ==
    [][last'.op = "handleAddExternalProduct_finish" =>
         LET added == Head(microtasks).productId IN
         /\ \A i \in DOMAIN products' :
              ExternalIdentity(products'[i]) = added => C10_Marked(products'[i])
         /\ \A i \in DOMAIN filteredProducts' :
              ExternalIdentity(filteredProducts'[i]) = added =>
                  C10_Marked(filteredProducts'[i])]_vars

\* the number of remote calls of the Product List View awaiting settlement
C11_Calls(calls) == BagCardinality(calls)

\* C11: when an add fails (success = false, no result, or a thrown error) the
\* handler's last step leaves products, filteredProducts, currentPage and the
\* three counts as they were, publishes nothing, schedules no reload and no
\* refresh, issues no remote call (the failed one is simply gone), and
\* dispatches exactly one toast, an error toast.  A resumed add that
\* dispatches no toast is the successful one, which starts the reload.
C11_FailedAddChangesNothing ==
    [][last'.op \in {"handleAddProduct_resume", "handleAddExternalProduct_resume"} =>
         IF last'.toasts = <<>>
           THEN C11_Calls(ap_calls') = C11_Calls(ap_calls)
           ELSE /\ UNCHANGED <<products, filteredProducts, currentPage, sfCount,
                               apiCount, totalCount>>
                /\ last'.published = <<>>
                /\ UNCHANGED <<microtasks, ap_timers>>
                /\ C11_Calls(ap_calls') = C11_Calls(ap_calls) - 1
                /\ \A c \in InFlight(ap_calls') :
                     c \in InFlight(ap_calls) /\ ap_calls'[c] <= ap_calls[c]
                /\ Len(last'.toasts) = 1
                /\ last'.toasts[1].variant = "error"
                /\ last'.effects = <<>>]_vars

\* C11 witness: an add of a row of a loaded catalog has failed and nothing is
\* under way any more.
C11_Witness ==
    /\ last.op = "handleAddProduct_resume"
    /\ Len(last.toasts) = 1
    /\ Len(products) > 0
    /\ ap_calls = EmptyBag
    /\ ap_timers = 0
    /\ microtasks = <<>>

\* C12: when the catalog call of loadProducts throws, the step that ends
\* loadProducts leaves products and filteredProducts empty, error holding the
\* message getErrorMessage gives for what was thrown, that message dispatched
\* in one error toast, and isLoading false.
C12_FailedLoadClearsRows ==
    [][(last'.op = "loadProducts" /\ last'.toasts # <<>>) =>
         /\ products' = <<>>
         /\ filteredProducts' = <<>>
         /\ \E e \in ErrorShapes : ap_error' = getErrorMessage(e)
         /\ last'.toasts = <<showToast("Error loading products", ap_error', "error")>>
         /\ ap_isLoading' = FALSE]_vars

\* C12 witness: a load has failed while a search term was set, and the rows
\* are gone.
C12_Witness ==
    /\ last.op = "loadProducts"
    /\ Len(last.toasts) = 1
    /\ searchTerm # <<>>
    /\ ap_error # NoError
    /\ products = <<>>
    /\ filteredProducts = <<>>
    /\ ~ap_isLoading

\* C16: with recordId missing no step of the Product List View issues a
\* remote call, and an add call never goes out without a product id.
C16_NoCallWithoutIdentifier ==
    [][/\ ap_recordId = NoId =>
             \A c \in InFlight(ap_calls') :
                 c \in InFlight(ap_calls) /\ ap_calls'[c] <= ap_calls[c]
       /\ \A c \in InFlight(ap_calls') :
             c.api = "addProductToOrder" => c.productId # NoProductId]_vars

\* C18: no load in flight is dropped (its call leaves only by its own
\* response being delivered), and each response delivered with a catalog puts
\* into products the rows of the request it answers, whatever the toggle
\* shows by then and whichever request was issued last, and into
\* filteredProducts their filtering; so the rows left are those of the
\* response delivered last.
C18_LastDeliveredWins ==
    [][/\ (last'.op = "loadProducts" /\ last'.toasts = <<>>) =>
             \E c \in InFlight(ap_calls) :
                 /\ c.api = "getCombinedProducts"
                 /\ ap_calls' = Take(ap_calls, c)
                 /\ products' = transformProductData(
                                    getCombinedProducts(MaxCatalog, c.includeExternal),
                                    ap_isActivated)
                 /\ filteredProducts' = applyFilters(products', searchTerm)
       /\ \A c \in InFlight(ap_calls) :
             (/\ c.api = "getCombinedProducts"
              /\ (c \notin InFlight(ap_calls') \/ ap_calls'[c] < ap_calls[c])) =>
                 /\ last'.op = "loadProducts"
                 /\ ap_calls' = Take(ap_calls, c)]_vars

\* Two loads were in flight; the one without external products was requested
\* last and the one with them delivered last: the toggle is off and the rows
\* hold external products.
C18_Witness ==
    /\ last.op = "loadProducts"
    /\ last.toasts = <<>>
    /\ \A c \in InFlight(ap_calls) : c.api # "getCombinedProducts"
    /\ ~includeExternal
    /\ apiCount > 0
    /\ \E i \in DOMAIN filteredProducts : filteredProducts[i].isExternal

\* C21: whenever the Product List View's isActivated is true, every row of
\* products and of filteredProducts has disableAdd true.
C21_ActivatedDisablesEveryAdd ==
    ap_isActivated =>
        /\ \A i \in DOMAIN products : products[i].disableAdd
        /\ \A i \in DOMAIN filteredProducts : filteredProducts[i].disableAdd

\* A load has completed after the activation check answered true.
C21_Witness ==
    /\ last.op = "loadProducts"
    /\ ap_isActivated
    /\ Len(products) > 0
    /\ Len(filteredProducts) > 0

\* C22: between the steps of the Product List View, totalCount is the number
\* of rows of products, sfCount the number of its local rows, apiCount the
\* number of its external rows, and sfCount + apiCount = totalCount.
C22_CountsDescribeCatalog ==
    /\ totalCount = Len(products)
    /\ sfCount = Cardinality({i \in DOMAIN products : ~products[i].isExternal})
    /\ apiCount = Cardinality({i \in DOMAIN products : products[i].isExternal})
    /\ sfCount + apiCount = totalCount

\* C23: in every state of the Product List View 1 <= currentPage <= totalPages.
C23_PageWithinRange ==
    /\ 1 <= currentPage
    /\ currentPage <= totalPages

\* the identities of rows, in their order
C24_Identities(rows) ==
    [i \in DOMAIN rows |-> <<rows[i].productId, rows[i].productCode>>]

\* the rows of products whose name, code, category or brand contains the
\* search term, in their order
C24_Matching ==
    SelectRows(products,
               {r \in Rows(products) :
                   \/ searchTerm = <<>>
                   \/ \E field \in {r.productName, r.productCode, r.category, r.brand} :
                        C8_Contains(field, searchTerm)})

\* C24: in every state of the Product List View filteredProducts holds, in
\* the same order, exactly the rows of products that match searchTerm.
C24_FilteredIsFilterOfProducts ==
    C24_Identities(filteredProducts) = C24_Identities(C24_Matching)

\* A load has completed while a search term was set, and the term keeps some
\* rows and drops others.
C24_Witness ==
    /\ last.op \in {"loadProducts", "checkActivation", "handleAddProduct_finish"}
    /\ searchTerm # <<>>
    /\ Len(filteredProducts) > 0
    /\ Len(filteredProducts) < Len(products)

\* C25: in each view isLoading is true in every state in which a remote call
\* started by an operation that sets isLoading is in flight: a remove or a
\* live-query refresh in the Order Line View, a catalog load or an add in the
\* Product List View.
C25_LoadingWhileInFlight ==
    /\ (\E c \in InFlight(op_calls) : c.api \in {"removeOrderItem", "refreshApex"}) =>
          op_isLoading
    /\ (\E c \in InFlight(ap_calls) :
            c.api \in {"getCombinedProducts", "addProductToOrder",
                       "addExternalProductToOrder"}) =>
          ap_isLoading

----------------------------------------------------------------------------
(* Claims about the message channel *)

\* the view holds a subscription, and the channel one listener for it,
\* exactly when it is mounted, and never more than one
C13_OneWhenMounted ==
    /\ lmsListeners <= 1
    /\ (lmsListeners = 1) <=> op_mounted
    /\ (subscription # NoSubscription) <=> op_mounted

\* C13: after any sequence of connectedCallback and disconnectedCallback
\* calls the Order Line View holds at most one channel subscription, one
\* exactly when it is mounted and none after unmount; disconnectedCallback
\* without a subscription changes nothing; and a message published while the
\* view is unmounted is not queued for it, so its listener runs only while it
\* is mounted.
C13_SubscriptionFollowsMount ==
    /\ C13_OneWhenMounted
    /\ [][/\ C13_OneWhenMounted'
          /\ (last'.op = "disconnectedCallback" /\ subscription = NoSubscription) =>
                UNCHANGED <<srvActivated, op_vars, ap_vars, lms_vars>>
          /\ (~op_mounted /\ last'.published # <<>>) =>
                (lmsQueue = EmptyBag /\ lmsQueue' = EmptyBag)
          /\ last'.op = "handleProductAddedMessage" => op_mounted]_vars

\* C13 witness: a view with a record id was mounted and unmounted, and a
\* message published after that has not been queued for it.
C13_Witness ==
    /\ ~op_mounted
    /\ op_calls # EmptyBag
    /\ last.op = "publish"
    /\ last.published # <<>>
    /\ lmsListeners = 0
    /\ lmsQueue = EmptyBag

\* a reload, or a record-view refresh, is scheduled and has not run
C14_Pending(callback) ==
    \E i \in DOMAIN op_timers : op_timers[i].callback = callback

\* C14: the listener, called with a message whose orderId is the view's
\* recordId, schedules exactly two callbacks, the reload with delay 0 and
\* then the record-view refresh with delay 400, and called with a null
\* message or another order's changes no state; a record-view refresh runs
\* only when no reload scheduled before it is still pending; and every
\* scheduled reload and every scheduled refresh eventually runs.
C14_MessageSchedulesReloadAndRefresh ==
    /\ [][/\ last'.op = "handleProductAddedMessage" =>
               \E message \in InFlight(lmsQueue) :
                   /\ lmsQueue' = Take(lmsQueue, message)
                   /\ IF message # <<>> /\ message[1].orderId = op_recordId
                        THEN op_timers' = op_timers \o
                               <<[callback |-> "refreshOrderProducts", delay |-> 0],
                                 [callback |-> "refreshCurrentRecordView",
                                  delay |-> 400]>>
                        ELSE UNCHANGED <<srvActivated, op_vars, ap_vars, lmsListeners>>
          /\ last'.op = "setTimeout:refreshCurrentRecordView" =>
               \E i \in DOMAIN op_timers :
                   /\ op_timers[i].callback = "refreshCurrentRecordView"
                   /\ op_timers' = SubSeq(op_timers, 1, i - 1)
                                     \o SubSeq(op_timers, i + 1, Len(op_timers))
                   /\ \A j \in 1..(i - 1) :
                        op_timers[j].callback # "refreshOrderProducts"]_vars
    /\ []<>(~C14_Pending("refreshOrderProducts")) \/ []<><<op_reloadTimer>>_vars
    /\ []<>(~C14_Pending("refreshCurrentRecordView")) \/ []<><<op_refreshTimer>>_vars

\* C14 witness: both callbacks of a message have run, the reload having
\* started refreshApex, and the record-view refresh ran last.
C14_Witness ==
    /\ last.op = "setTimeout:refreshCurrentRecordView"
    /\ op_timers = <<>>
    /\ RefreshCall \in InFlight(op_calls)

----------------------------------------------------------------------------
(* Claims about both views on one page *)

\* The adds whose remote call returned success and whose ProductAddedEvent is
\* still to be published: each is the caller of a loadProducts() in flight or
\* a queued continuation.
C15_AddsReturned ==
    BagCardinality([c \in {d \in InFlight(ap_calls) :
                              /\ d.api = "getCombinedProducts"
                              /\ d.then.k \in AwaitingCallers} |-> ap_calls[c]])
    + Cardinality({i \in DOMAIN microtasks : microtasks[i].k \in AwaitingCallers})

C15_AddCalls ==
    BagCardinality([c \in {d \in InFlight(ap_calls) :
                              d.api \in {"addProductToOrder",
                                         "addExternalProductToOrder"}} |-> ap_calls[c]])

C15_ReloadsStarted ==
    IF RefreshCall \in InFlight(op_calls) THEN op_calls[RefreshCall] ELSE 0

\* C15: an add comes to publish only by its remote call returning success (a
\* resume step without error notification that takes the add call), and each
\* ProductAddedEvent published uses up one such add and carries the order of
\* the view; an add rejected locally, answered success = false or thrown
\* publishes nothing and leaves no add to publish; a message is on the
\* channel only by a publish, the Order Line View schedules its reload only
\* on receiving a message, and starts a reload only from that timer.
C15_PublishOnlyAfterSuccess ==
    [][/\ C15_AddsReturned' > C15_AddsReturned =>
             /\ last'.op \in {"handleAddProduct_resume",
                               "handleAddExternalProduct_resume"}
             /\ last'.toasts = <<>>
             /\ C15_AddsReturned' = C15_AddsReturned + 1
             /\ C15_AddCalls' = C15_AddCalls - 1
       /\ last'.published # <<>> =>
             /\ last'.op \in {"handleAddProduct_finish",
                               "handleAddExternalProduct_finish"}
             /\ C15_AddsReturned' = C15_AddsReturned - 1
             /\ last'.published[1].orderId = ap_recordId
             /\ lmsQueue' = lmsQueue (+) SetToBag({last'.published})
       /\ (/\ last'.op \in {"handleAddProduct", "handleAddExternalProduct",
                             "handleAddProduct_resume",
                             "handleAddExternalProduct_resume"}
           /\ last'.toasts # <<>>) =>
             /\ last'.published = <<>>
             /\ C15_AddsReturned' = C15_AddsReturned
             /\ lmsQueue' = lmsQueue
             /\ C15_ReloadsStarted' = C15_ReloadsStarted
             /\ op_timers' = op_timers
       /\ BagCardinality(lmsQueue') > BagCardinality(lmsQueue) =>
             last'.published # <<>>
       /\ Len(op_timers') > Len(op_timers) =>
             /\ last'.op = "handleProductAddedMessage"
             /\ BagCardinality(lmsQueue') = BagCardinality(lmsQueue) - 1
       /\ C15_ReloadsStarted' > C15_ReloadsStarted =>
             /\ last'.op = "setTimeout:refreshOrderProducts"
             /\ Len(op_timers') = Len(op_timers) - 1]_vars

\* The Order Line View has started the reload a published event caused.
C15_Witness ==
    /\ last.op = "setTimeout:refreshOrderProducts"
    /\ C15_ReloadsStarted > 0
    /\ ap_timers > 0

\* C17: when the activation-status check of either view throws, that view's
\* isActivated and its rows (with their removeDisabled / disableAdd flags)
\* are what they were before, and no notification is shown.
C17_FailedCheckChangesNothing ==
    [][/\ (/\ last'.op = "checkOrderActivationStatus"
           /\ last'.effects = <<"console.error">>) =>
             /\ op_isActivated' = op_isActivated
             /\ orderItems' = orderItems
             /\ last'.toasts = <<>>
       /\ (/\ last'.op = "checkActivation"
           /\ last'.effects = <<"console.error">>) =>
             /\ ap_isActivated' = ap_isActivated
             /\ products' = products
             /\ filteredProducts' = filteredProducts
             /\ last'.toasts = <<>>]_vars

\* The check of the Order Line View has thrown on a view that shows rows of
\* an activated order.
C17_Witness ==
    /\ last.op = "checkOrderActivationStatus"
    /\ last.effects = <<"console.error">>
    /\ op_isActivated
    /\ Len(orderItems) > 0

\* C27: while the Order Line View is unmounted no delayed action of it
\* fires: it starts no reload of the live query and no navigation to the
\* record view.
C27_NoTimerAfterUnmount ==
    [][~op_mounted =>
         /\ last'.op \notin {"setTimeout:refreshOrderProducts",
                              "setTimeout:refreshCurrentRecordView"}
         /\ Len(op_timers') >= Len(op_timers)]_vars

=============================================================================
